---- MODULE Spec2Model ----
(***************************************************************************)
(* Document-permission synchronisation of                                  *)
(* backend/ee/onyx/background/celery/tasks/doc_permission_syncing/tasks.py *)
(*                                                                         *)
(* The beat scheduler (check_for_doc_permissions_sync), the fence creation *)
(* (try_creating_permissions_sync_task), the generator task                *)
(* (connector_permission_sync_generator_task), the fence validator and the *)
(* progress monitor, over the Redis keys, the Celery generator lane and    *)
(* the database rows they share.  Every Redis lock and signal carries a    *)
(* TTL; an expiry is a step of the environment.                            *)
(***************************************************************************)
EXTENDS Integers, Sequences, FiniteSets, TLC

\* None, among integers (ids, counts and instants are >= 0)
None == -1

\* Bounds of the model.
MaxTasks == 2            \* generator task ids handed out (uuid4 per attempt)
MaxDocs == 2             \* DocExternalAccess items one doc_sync_func run yields
MultiplierUnit == 2      \* the runtime multiplier is counted in 1/MultiplierUnit
SignalClockStep == 150   \* seconds that pass in one step of the signal's clock
MaxClock == 5            \* instants of time.monotonic() a callback lives through
MaxCalls == 3            \* progress() calls made on one callback

CCPairs == {7}           \* connector/credential pairs with access_type SYNC
Beats == {1, 2}          \* processes that run the beat task
TaskIds == 1..MaxTasks
Times == 0..(MaxTasks + 1)
Multipliers == 1..(2 * MultiplierUnit)   \* 1/MultiplierUnit up to 2.0

VARIABLES
    fence,               \* permissionsync_fence:<cc>: None or the payload
    active,              \* permissionsync_active:<cc> exists (TTL signal)
    taskset,             \* permissionsync_taskset:<cc>
    generator_complete,  \* permissionsync_generator_complete:<cc>: None or int
    active_fences,       \* the active_fences index set
    block_validate,      \* BLOCK_VALIDATE_PERMISSION_SYNC_FENCES exists
    delete_fenced,       \* redis_connector.delete.fenced
    prune_fenced,        \* redis_connector.prune.fenced
    stop_fenced,         \* redis_connector.stop.fenced
    lock_beat,           \* owner of the beat lock, None when free
    fn_lock,             \* owner of try_generate_permissions_sync_tasks lock
    sync_lock,           \* per cc: owner of the permissions sync lock
    task,                \* generator tasks: position and tasks_generated
    next_task,           \* next task id to hand out
    last_time_perm_sync, \* cc_pair.last_time_perm_sync
    sync_records,        \* per cc: the SyncRecord rows, oldest first
    beat,                \* per beat process: position and locals
    probe,               \* one evaluation of the due policy: inputs, result
    source_perm_sync_config,    \* per cc: get_source_perm_sync_config(source)
    last_successful_index_time, \* cc_pair.last_successful_index_time
    heartbeat,           \* a PermissionSyncCallback under observation
    upsert_lane,         \* task ids queued on the DOC_PERMISSIONS_UPSERT lane
    limiter,             \* MULTI_TENANT, the beat multiplier, the signal's TTL
    upserter             \* the tables the upserter writes, and its call under way

vars == <<fence, active, taskset, generator_complete, active_fences,
          block_validate, delete_fenced, prune_fenced, lock_beat, fn_lock,
          sync_lock, task, next_task, last_time_perm_sync, sync_records, beat,
          probe, stop_fenced, source_perm_sync_config,
          last_successful_index_time, heartbeat, upsert_lane, limiter,
          upserter>>

redis_fence == <<fence, active, taskset, generator_complete, active_fences>>
redis_locks == <<lock_beat, fn_lock, sync_lock>>
lifecycle == <<delete_fenced, prune_fenced, stop_fenced>>
catalog == <<source_perm_sync_config, last_successful_index_time>>
database == <<last_time_perm_sync, sync_records>>

----------------------------------------------------------------------------
\* Program constants.

PERMISSION_SYNC_VALIDATION_MAX_QUEUE_LEN == 1024

\* base_expiration of _get_fence_validation_block_expiration, in seconds
base_expiration == 300

\* the retry policy of document_update_permissions, in seconds
DOCUMENT_PERMISSIONS_UPDATE_STOP_AFTER == 600
DOCUMENT_PERMISSIONS_UPDATE_MAX_WAIT == 60

\* in units of the callback's clock
CELERY_GENERIC_BEAT_LOCK_TIMEOUT == 6

\* Lengths the upsert lane is observed with by the validator.
QueueLens == {0, PERMISSION_SYNC_VALIDATION_MAX_QUEUE_LEN,
              PERMISSION_SYNC_VALIDATION_MAX_QUEUE_LEN + 1}

\* celery_get_queue_length: the lane holds the task ids of lane and, of the
\* other tasks on it, as many as make up one of QueueLens
celery_get_queue_length(lane) ==
    {q \in QueueLens \cup {Cardinality(lane)} : q >= Cardinality(lane)}

----------------------------------------------------------------------------
\* RedisConnectorPermissionSyncPayload and the fence store.

Payload(id, started, task_id) ==
    [id |-> id, submitted |-> id, started |-> started, celery_task_id |-> task_id]

\* the fence key does not exist
NoFence == Payload(None, None, None)

\* a stored value that RedisConnectorPermissionSyncPayload does not validate
Invalid == Payload(-2, None, None)

\* payload parses (pydantic validation succeeds)
Parses(p) == p # Invalid

fenced(c) == fence[c] # NoFence

\* the instant generator t wrote `started`
StartTime(t) == t

\* set_fence(payload): the fence key is written and indexed
FenceSet(f, c, p) == [f EXCEPT ![c] = p]
IndexAdd(af, c) == af \cup {c}
IndexRemove(af, c) == af \ {c}

\* The Redis keys reset() and set_fence(None) remove, for every cc in S.
Cleared(fn, S) == [c \in DOMAIN fn |-> IF c \in S THEN None ELSE fn[c]]
Deleted(f, S) == [c \in DOMAIN f |-> IF c \in S THEN NoFence ELSE f[c]]
ClearedFlag(fn, S) == [c \in DOMAIN fn |-> IF c \in S THEN FALSE ELSE fn[c]]
ClearedSet(fn, S) == [c \in DOMAIN fn |-> IF c \in S THEN {} ELSE fn[c]]

get_remaining(c) == Cardinality(taskset[c])

\* faulty variant: the finally block releases without asking lock.owned()
ReleaseUnchecked(l, me) == None

\* lock.owned() / lock.release() in a finally block
ReleaseIfOwned(l, me) == IF l = me THEN None ELSE l

----------------------------------------------------------------------------
\* Celery generator lane, read off the tasks' positions.

InQueue(t) == task[t].pc = "queued"
ReservedTasks == {t \in TaskIds : task[t].pc = "reserved"}
Executing(t) == task[t].pc \in {"wait", "locked", "sync", "stopping"}

----------------------------------------------------------------------------
\* Due policy.

\* the sync config of the (single) source: doc_sync_config is present
DocSyncFrequency == 1
SyncConfig ==
    [present |-> TRUE,
     doc_sync_config |->
        [present |-> TRUE,
         initial_index_should_sync |-> FALSE,
         doc_sync_frequency |-> DocSyncFrequency],
     censoring_config |-> FALSE]

\* entries of the registry behind get_source_perm_sync_config
SyncAfterIndexing ==
    [SyncConfig EXCEPT !.doc_sync_config.initial_index_should_sync = TRUE]
CensoringOnly ==
    [SyncConfig EXCEPT !.doc_sync_config.present = FALSE,
                       !.censoring_config = TRUE]
NoDocSyncNoCensoring ==
    [SyncConfig EXCEPT !.doc_sync_config.present = FALSE]
NoSyncConfig ==
    [NoDocSyncNoCensoring EXCEPT !.present = FALSE]
SourceConfigs ==
    {SyncConfig, SyncAfterIndexing, CensoringOnly, NoDocSyncNoCensoring,
     NoSyncConfig}

CCPair(c) ==
    [access_type |-> "SYNC", status |-> "ACTIVE",
     last_successful_index_time |-> last_successful_index_time[c],
     last_time_perm_sync |-> last_time_perm_sync[c]]

\* faulty variant: the first indexing run is not waited for
DueIgnoresIndexing(cc_pair, sync_config, multiplier, now) ==
    IF cc_pair.access_type # "SYNC" THEN FALSE
    ELSE IF cc_pair.status # "ACTIVE" THEN FALSE
    ELSE IF ~sync_config.present THEN FALSE
    ELSE IF ~sync_config.doc_sync_config.present THEN FALSE
    ELSE IF cc_pair.last_time_perm_sync = None THEN TRUE
    ELSE now >= cc_pair.last_time_perm_sync
                  + sync_config.doc_sync_config.doc_sync_frequency
                      * (multiplier \div MultiplierUnit)

\* int(x) of a non-negative x given in 1/MultiplierUnit
int(x) == x \div MultiplierUnit

\* OnyxRuntime.get_doc_permission_sync_multiplier(), 1.0 unless configured
get_doc_permission_sync_multiplier == Multipliers

_is_external_doc_permissions_sync_due(cc_pair, sync_config, multiplier, now) ==
    IF cc_pair.access_type # "SYNC" THEN FALSE
    ELSE IF cc_pair.status # "ACTIVE" THEN FALSE
    ELSE IF ~sync_config.present THEN FALSE
    ELSE IF ~sync_config.doc_sync_config.present THEN FALSE
    ELSE IF /\ sync_config.doc_sync_config.initial_index_should_sync
            /\ cc_pair.last_successful_index_time = None THEN FALSE
    ELSE IF cc_pair.last_time_perm_sync = None THEN TRUE
    ELSE now >= cc_pair.last_time_perm_sync
                  + sync_config.doc_sync_config.doc_sync_frequency
                      * int(multiplier)

----------------------------------------------------------------------------
\* Initial state: nothing fenced, nothing queued, every lock free.

\* no evaluation of the due policy is under observation
NoProbe ==
    [cc_pair |-> [access_type |-> "SYNC", status |-> "ACTIVE",
                  last_successful_index_time |-> None,
                  last_time_perm_sync |-> None],
     sync_config |-> SyncConfig, multiplier |-> MultiplierUnit, now |-> 0,
     evaluated |-> FALSE, result |-> FALSE]

IdleBeat == [pc |-> "idle", ret |-> "-", due |-> {}, cc |-> None, tid |-> 0,
             rec_ok |-> FALSE, queued |-> {}, snap |-> {},
             queue_len |-> None]
NewTask == [pc |-> "unused", cc |-> None, tasks_generated |-> 0]

\* _get_fence_validation_block_expiration

\* faulty variant: the multiplier is applied in every deployment
ExpirationAlwaysScaled(multi_tenant, beat_multiplier) ==
    (base_expiration * beat_multiplier) \div MultiplierUnit

\* base_expiration is 300 seconds; in MULTI_TENANT mode it is multiplied by
\* the beat multiplier (OnyxRuntime.get_beat_multiplier(), or
\* CLOUD_BEAT_MULTIPLIER_DEFAULT when the lookup raises) and cut to an int.
\* beat_multiplier is given in 1/MultiplierUnit.
get_fence_validation_block_expiration(multi_tenant, beat_multiplier) ==
    IF ~multi_tenant
    THEN base_expiration
    ELSE (base_expiration * beat_multiplier) \div MultiplierUnit

\* r.set(BLOCK_VALIDATE_PERMISSION_SYNC_FENCES, 1, ex=...): the signal's TTL
\* starts anew
SignalSet ==
    [limiter EXCEPT !.ttl = get_fence_validation_block_expiration(
                                limiter.multi_tenant, limiter.beat_multiplier)]

\* the signal has expired
SignalGone == [limiter EXCEPT !.ttl = 0]

\* a single-tenant deployment, the signal absent
SingleTenant ==
    [multi_tenant |-> FALSE, beat_multiplier |-> MultiplierUnit, ttl |-> 0]

----------------------------------------------------------------------------
\* document_update_permissions: the tables and the transaction.

Emails == {"a@corp", "b@corp"}
DocIds == {"doc"}

\* ExternalAccess and DocExternalAccess
ExternalAccesses == [external_user_emails : SUBSET Emails, is_public : BOOLEAN]
DocExternalAccesses == [doc_id : DocIds, external_access : ExternalAccesses]

\* a row of the document table: absent, or present with its external ACL
NoRow ==
    [present |-> FALSE,
     external_access |-> [external_user_emails |-> {}, is_public |-> FALSE]]
Row(external_access) == [present |-> TRUE, external_access |-> external_access]

\* the user table, the document table and the rows that tie documents to the
\* cc pair of the sync
Tables ==
    [user : SUBSET Emails,
     document : [DocIds -> {NoRow} \cup {Row(a) : a \in ExternalAccesses}],
     document_by_connector_credential_pair : SUBSET DocIds]

EmptyTables ==
    [user |-> {}, document |-> [d \in DocIds |-> NoRow],
     document_by_connector_credential_pair |-> {}]

\* the users that do not exist yet are added
batch_add_ext_perm_user_if_not_exists(db, emails) ==
    [db EXCEPT !.user = @ \cup emails]

\* the document's external ACL is written, the row created when missing
upsert_document_external_perms(db, doc_id, external_access) ==
    [db EXCEPT !.document[doc_id] = Row(external_access)]

\* the documents are tied to the cc pair
upsert_document_by_connector_credential_pair(db, document_ids) ==
    [db EXCEPT !.document_by_connector_credential_pair = @ \cup document_ids]

\* faulty variant: the document is tied to the cc pair when its row was
\* already there
UpdateTiesExistingDoc(db, permissions) ==
    LET doc_id == permissions.doc_id
        external_access == permissions.external_access
        users == batch_add_ext_perm_user_if_not_exists(
                     db, external_access.external_user_emails)
        created_new_doc == ~users.document[doc_id].present
        upserted == upsert_document_external_perms(users, doc_id,
                                                   external_access)
    IN  IF ~created_new_doc
        THEN upsert_document_by_connector_credential_pair(upserted, {doc_id})
        ELSE upserted

\* the body of document_update_permissions, one transaction: the tables after
\* a run without exception
document_update_permissions(db, permissions) ==
    LET doc_id == permissions.doc_id
        external_access == permissions.external_access
        users == batch_add_ext_perm_user_if_not_exists(
                     db, external_access.external_user_emails)
        created_new_doc == ~users.document[doc_id].present
        upserted == upsert_document_external_perms(users, doc_id,
                                                   external_access)
    IN  IF created_new_doc
        THEN upsert_document_by_connector_credential_pair(upserted, {doc_id})
        ELSE upserted

\* the exceptions a run of the body raises, and the retry predicate
Errors == {"transient", "permanent"}
is_retryable_sqlalchemy_error(e) == e = "transient"

NoPermissions ==
    [doc_id |-> "-",
     external_access |-> [external_user_emails |-> {}, is_public |-> FALSE]]

\* no call of the upserter under way, the tables empty
NoUpsert ==
    [db |-> EmptyTables, pc |-> "idle", task |-> None,
     permissions |-> NoPermissions, attempt_number |-> 0, failed |-> 0,
     elapsed |-> 0, sleep |-> 0, error |-> "-", outcome |-> "-",
     last |-> NoPermissions, created_new_doc |-> FALSE, repeated |-> FALSE]

\* no key in Redis, no row in the database, no task, every beat idle
InitKeys ==
    /\ fence = [c \in CCPairs |-> NoFence]
    /\ active = [c \in CCPairs |-> FALSE]
    /\ taskset = [c \in CCPairs |-> {}]
    /\ generator_complete = [c \in CCPairs |-> None]
    /\ active_fences = {}
    /\ block_validate = FALSE
    /\ delete_fenced = [c \in CCPairs |-> FALSE]
    /\ prune_fenced = [c \in CCPairs |-> FALSE]
    /\ stop_fenced = [c \in CCPairs |-> FALSE]
    /\ lock_beat = None
    /\ fn_lock = None
    /\ sync_lock = [c \in CCPairs |-> None]
    /\ task = [t \in TaskIds |-> NewTask]
    /\ next_task = 1
    /\ last_time_perm_sync = [c \in CCPairs |-> None]
    /\ sync_records = [c \in CCPairs |-> <<>>]
    /\ beat = [b \in Beats |-> IdleBeat]
    /\ upsert_lane = {}
    /\ upserter = NoUpsert

InitSystem == InitKeys /\ limiter = SingleTenant

\* the source of every cc pair has a doc sync config that does not wait for
\* the first indexing run
InitCatalog ==
    /\ source_perm_sync_config = [c \in CCPairs |-> SyncConfig]
    /\ last_successful_index_time = [c \in CCPairs |-> None]

\* no PermissionSyncCallback is under observation
NoHeartbeat ==
    [now |-> 0, last_lock_monotonic |-> 0, owned |-> FALSE, active |-> FALSE,
     reacquired |-> FALSE, raised |-> FALSE, calls |-> 0]

Init == InitSystem /\ InitCatalog /\ probe = NoProbe /\ heartbeat = NoHeartbeat

----------------------------------------------------------------------------
\* check_for_doc_permissions_sync

\* the finally block and the return of a tick that acquired the beat lock
BeatReturn(b) == [IdleBeat EXCEPT !.ret = "True"]

\* faulty variant: the tick returns without the finally block
BeatExitKeepsLock(b) ==
    /\ beat' = [beat EXCEPT ![b] = BeatReturn(b)]
    /\ UNCHANGED lock_beat

BeatExit(b) ==
    /\ beat' = [beat EXCEPT ![b] = BeatReturn(b)]
    /\ lock_beat' = ReleaseIfOwned(lock_beat, b)

\* faulty variant: the beat lock is taken whether or not it is held
BeatAcquireBlind(b) ==
    /\ beat[b].pc = "idle"
    /\ lock_beat' = b
    /\ beat' = [beat EXCEPT ![b] = [IdleBeat EXCEPT !.pc = "due"]]
    /\ UNCHANGED <<probe, heartbeat, catalog, upsert_lane, upserter, limiter, redis_fence, block_validate, lifecycle, fn_lock, sync_lock,
                   task, next_task, database>>

\* lock_beat.acquire(blocking=False) succeeds
BeatAcquire(b) ==
    /\ beat[b].pc = "idle"
    /\ lock_beat = None
    /\ lock_beat' = b
    /\ beat' = [beat EXCEPT ![b] = [IdleBeat EXCEPT !.pc = "due"]]
    /\ UNCHANGED <<probe, heartbeat, catalog, upsert_lane, upserter, limiter, redis_fence, block_validate, lifecycle, fn_lock, sync_lock,
                   task, next_task, database>>

\* lock_beat.acquire(blocking=False) fails: return None
BeatAcquireFail(b) ==
    /\ beat[b].pc = "idle"
    /\ lock_beat # None
    /\ beat' = [beat EXCEPT ![b] = [IdleBeat EXCEPT !.ret = "None"]]
    /\ UNCHANGED <<probe, heartbeat, catalog, upsert_lane, upserter, limiter, redis_fence, block_validate, lifecycle, redis_locks,
                   task, next_task, database>>

\* the due scan over get_all_auto_sync_cc_pairs, then lock_beat.reacquire()
BeatDue(b) ==
    /\ beat[b].pc = "due"
    /\ \E now \in Times : \E multiplier \in get_doc_permission_sync_multiplier :
        LET due == {c \in CCPairs :
                      _is_external_doc_permissions_sync_due(
                          CCPair(c), source_perm_sync_config[c],
                          multiplier, now)}
        IN IF lock_beat = b
           THEN /\ beat' = [beat EXCEPT ![b].pc = "create", ![b].due = due]
                /\ UNCHANGED lock_beat
           ELSE BeatExit(b)
    /\ UNCHANGED <<probe, heartbeat, catalog, upsert_lane, upserter, limiter, redis_fence, block_validate, lifecycle, fn_lock, sync_lock,
                   task, next_task, database>>

\* SoftTimeLimitExceeded, or any other exception, in the body of the tick
\* outside the validator's own try block
BeatSoftTimeLimit(b) ==
    /\ beat[b].pc \in {"due", "create", "monitor"}
    /\ BeatExit(b)
    /\ UNCHANGED <<probe, heartbeat, catalog, upsert_lane, upserter, limiter, redis_fence, block_validate, lifecycle, fn_lock, sync_lock,
                   task, next_task, database>>

----------------------------------------------------------------------------
\* try_creating_permissions_sync_task

\* back in the loop of the tick, the cc pair handled
TryReturn(b) ==
    [beat[b] EXCEPT !.pc = "create", !.due = beat[b].due \ {beat[b].cc},
                    !.cc = None, !.tid = 0, !.rec_ok = FALSE]

\* lock.acquire(blocking_timeout=LOCK_TIMEOUT / 2) times out: return None
TryLockTimeout(b) ==
    /\ beat[b].pc = "create"
    /\ fn_lock # None
    /\ \E c \in beat[b].due :
        beat' = [beat EXCEPT ![b].due = beat[b].due \ {c}]
    /\ UNCHANGED <<probe, heartbeat, catalog, upsert_lane, upserter, limiter, redis_fence, block_validate, lifecycle, redis_locks,
                   task, next_task, database>>

\* faulty variant: the prune fence is not looked at
BlockedIgnoresPrune(c) == fenced(c) \/ delete_fenced[c]

\* another lifecycle operation holds the cc pair
Blocked(c) == fenced(c) \/ delete_fenced[c] \/ prune_fenced[c]

\* the lock is acquired and one of the three fences is found: return None
TryBlocked(b) ==
    /\ beat[b].pc = "create"
    /\ fn_lock = None
    /\ \E c \in beat[b].due :
        /\ Blocked(c)
        /\ beat' = [beat EXCEPT ![b].due = beat[b].due \ {c}]
    /\ UNCHANGED <<probe, heartbeat, catalog, upsert_lane, upserter, limiter, redis_fence, block_validate, lifecycle, redis_locks,
                   task, next_task, database>>

\* the lock is acquired, no fence is found: generator_clear, taskset_clear,
\* custom_task_id
TryBegin(b) ==
    /\ beat[b].pc = "create"
    /\ fn_lock = None
    /\ next_task <= MaxTasks
    /\ \E c \in beat[b].due :
        /\ ~Blocked(c)
        /\ generator_complete' = Cleared(generator_complete, {c})
        /\ taskset' = ClearedSet(taskset, {c})
        /\ beat' = [beat EXCEPT ![b].pc = "tc_insert", ![b].cc = c,
                                ![b].tid = next_task]
    /\ fn_lock' = b
    /\ next_task' = next_task + 1
    /\ UNCHANGED <<probe, heartbeat, catalog, upsert_lane, upserter, limiter, fence, active, active_fences, block_validate, lifecycle,
                   lock_beat, sync_lock, task, database>>

\* faulty variant: the row is not inserted before the fence is set
TryInsertRecordDeferred(b) ==
    /\ beat[b].pc = "tc_insert"
    /\ beat' = [beat EXCEPT ![b].pc = "tc_fence", ![b].rec_ok = TRUE]
    /\ UNCHANGED <<probe, heartbeat, catalog, upsert_lane, upserter, limiter, redis_fence, block_validate, lifecycle, redis_locks,
                   task, next_task, database>>

\* insert_sync_record: the row is added, or the insert raises and is logged
TryInsertRecord(b) ==
    /\ beat[b].pc = "tc_insert"
    /\ \/ /\ sync_records' =
                [sync_records EXCEPT ![beat[b].cc] =
                    Append(@, [status |-> "IN_PROGRESS", num_docs_synced |-> None])]
          /\ beat' = [beat EXCEPT ![b].pc = "tc_fence", ![b].rec_ok = TRUE]
       \/ /\ beat' = [beat EXCEPT ![b].pc = "tc_fence", ![b].rec_ok = FALSE]
          /\ UNCHANGED sync_records
    /\ UNCHANGED <<probe, heartbeat, catalog, upsert_lane, upserter, limiter, redis_fence, block_validate, lifecycle, redis_locks,
                   task, next_task, last_time_perm_sync>>

\* set_active(), then set_fence(payload) with celery_task_id = None
TrySetFence(b) ==
    /\ beat[b].pc = "tc_fence"
    /\ active' = [active EXCEPT ![beat[b].cc] = TRUE]
    /\ fence' = FenceSet(fence, beat[b].cc, Payload(beat[b].tid, None, None))
    /\ active_fences' = IndexAdd(active_fences, beat[b].cc)
    /\ beat' = [beat EXCEPT ![b].pc = "tc_send"]
    /\ UNCHANGED <<probe, heartbeat, catalog, upsert_lane, upserter, limiter, taskset, generator_complete, block_validate, lifecycle,
                   redis_locks, task, next_task, database>>

\* app.send_task: the generator task is queued
TrySend(b) ==
    /\ beat[b].pc = "tc_send"
    /\ task' = [task EXCEPT ![beat[b].tid] =
                    [pc |-> "queued", cc |-> beat[b].cc, tasks_generated |-> 0]]
    /\ beat' = [beat EXCEPT ![b].pc = "tc_fill"]
    /\ UNCHANGED <<probe, heartbeat, catalog, upsert_lane, upserter, limiter, redis_fence, block_validate, lifecycle, redis_locks,
                   next_task, database>>

\* app.send_task raises: logged, lock released, return None
TrySendFail(b) ==
    /\ beat[b].pc = "tc_send"
    /\ beat' = [beat EXCEPT ![b] = TryReturn(b)]
    /\ fn_lock' = ReleaseIfOwned(fn_lock, b)
    /\ UNCHANGED <<probe, heartbeat, catalog, upsert_lane, upserter, limiter, redis_fence, block_validate, lifecycle, lock_beat, sync_lock,
                   task, next_task, database>>

\* payload.celery_task_id = result.id; set_fence(payload); lock released
TryFill(b) ==
    /\ beat[b].pc = "tc_fill"
    /\ fence' = FenceSet(fence, beat[b].cc,
                         Payload(beat[b].tid, None, beat[b].tid))
    /\ active_fences' = IndexAdd(active_fences, beat[b].cc)
    /\ beat' = [beat EXCEPT ![b] = TryReturn(b)]
    /\ fn_lock' = ReleaseIfOwned(fn_lock, b)
    /\ UNCHANGED <<probe, heartbeat, catalog, upsert_lane, upserter, limiter, active, taskset, generator_complete, block_validate,
                   lifecycle, lock_beat, sync_lock, task, next_task, database>>

----------------------------------------------------------------------------
\* validate_permission_sync_fences / validate_permission_sync_fence

\* celery_find_task on the generator lane
celery_find_task(task_id) == task_id \in TaskIds /\ InQueue(task_id)

\* the taskset members found in neither the upsert queue nor the reserved set
tasks_not_in_celery(c, queued_tasks, reserved_tasks) ==
    Cardinality({m \in taskset[c] :
                    m \notin queued_tasks /\ m \notin reserved_tasks})

\* faulty variant: a fence without any sign of life is left alone
ValidateNeverResets(c, queued_tasks, reserved_tasks) ==
    IF ~fenced(c) THEN "absent"
    ELSE IF ~Parses(fence[c]) THEN "reset"
    ELSE IF fence[c].celery_task_id = None THEN "skip"
    ELSE IF celery_find_task(fence[c].celery_task_id) THEN "renew"
    ELSE IF fence[c].celery_task_id \in reserved_tasks THEN "renew"
    ELSE "live"

\* faulty variant: the active signal is not consulted
ValidateIgnoresActive(c, queued_tasks, reserved_tasks) ==
    IF ~fenced(c) THEN "absent"
    ELSE IF ~Parses(fence[c]) THEN "reset"
    ELSE IF fence[c].celery_task_id = None THEN "skip"
    ELSE IF celery_find_task(fence[c].celery_task_id) THEN "renew"
    ELSE IF fence[c].celery_task_id \in reserved_tasks THEN "renew"
    ELSE "reset"

\* faulty variant: a payload that does not parse is left in place
ValidateKeepsUnparsed(c, queued_tasks, reserved_tasks) ==
    IF ~fenced(c) THEN "absent"
    ELSE IF ~Parses(fence[c]) THEN "skip"
    ELSE IF fence[c].celery_task_id = None THEN "skip"
    ELSE IF celery_find_task(fence[c].celery_task_id) THEN "renew"
    ELSE IF fence[c].celery_task_id \in reserved_tasks THEN "renew"
    ELSE IF /\ Cardinality(taskset[c]) > 0
            /\ tasks_not_in_celery(c, queued_tasks, reserved_tasks) = 0
         THEN "renew"
    ELSE IF active[c] THEN "live"
    ELSE "reset"

\* faulty variant: a payload without celery_task_id is validated like any
ValidateUnfilled(c, queued_tasks, reserved_tasks) ==
    IF ~fenced(c) THEN "absent"
    ELSE IF ~Parses(fence[c]) THEN "reset"
    ELSE IF celery_find_task(fence[c].celery_task_id) THEN "renew"
    ELSE IF fence[c].celery_task_id \in reserved_tasks THEN "renew"
    ELSE IF /\ Cardinality(taskset[c]) > 0
            /\ tasks_not_in_celery(c, queued_tasks, reserved_tasks) = 0
         THEN "renew"
    ELSE IF active[c] THEN "live"
    ELSE "reset"

\* faulty variant: the taskset is not scanned
ValidateIgnoresTaskset(c, queued_tasks, reserved_tasks) ==
    IF ~fenced(c) THEN "absent"
    ELSE IF ~Parses(fence[c]) THEN "reset"
    ELSE IF fence[c].celery_task_id = None THEN "skip"
    ELSE IF celery_find_task(fence[c].celery_task_id) THEN "renew"
    ELSE IF fence[c].celery_task_id \in reserved_tasks THEN "renew"
    ELSE IF active[c] THEN "live"
    ELSE "reset"

\* what validate_permission_sync_fence does with the fence of cc pair c:
\* "absent" and "skip" return at once, "renew" calls set_active(), "live"
\* returns on the active signal, "reset" calls reset()
validate_permission_sync_fence(c, queued_tasks, reserved_tasks) ==
    IF ~fenced(c) THEN "absent"
    ELSE IF ~Parses(fence[c]) THEN "reset"
    ELSE IF fence[c].celery_task_id = None THEN "skip"
    ELSE IF celery_find_task(fence[c].celery_task_id) THEN "renew"
    ELSE IF fence[c].celery_task_id \in reserved_tasks THEN "renew"
    ELSE IF /\ Cardinality(taskset[c]) > 0
            /\ tasks_not_in_celery(c, queued_tasks, reserved_tasks) = 0
         THEN "renew"
    ELSE IF active[c] THEN "live"
    ELSE "reset"

\* lock_beat.reacquire(); the BLOCK_VALIDATE signal is present: no validation
BeatValidateBlocked(b) ==
    /\ beat[b].pc = "create"
    /\ beat[b].due = {}
    /\ lock_beat = b
    /\ block_validate
    /\ beat' = [beat EXCEPT ![b].pc = "monitor"]
    /\ UNCHANGED <<probe, heartbeat, catalog, upsert_lane, upserter, limiter, redis_fence, block_validate, lifecycle, redis_locks,
                   task, next_task, database>>

\* lock_beat.reacquire() raises LockError: the tick ends
BeatLockLost(b) ==
    /\ beat[b].pc \in {"create", "monitor"}
    /\ beat[b].due = {}
    /\ lock_beat # b
    /\ BeatExit(b)
    /\ UNCHANGED <<probe, heartbeat, catalog, upsert_lane, upserter, limiter, redis_fence, block_validate, lifecycle, fn_lock, sync_lock,
                   task, next_task, database>>

\* faulty variant: the validator also returns at the limit itself
BeatValidateBeginAtLimit(b) ==
    /\ beat[b].pc = "create"
    /\ beat[b].due = {}
    /\ lock_beat = b
    /\ ~block_validate
    /\ \E queue_len \in celery_get_queue_length(upsert_lane) :
        IF queue_len >= PERMISSION_SYNC_VALIDATION_MAX_QUEUE_LEN
        THEN /\ block_validate' = TRUE
             /\ limiter' = SignalSet
             /\ beat' = [beat EXCEPT ![b].pc = "monitor",
                                     ![b].queue_len = queue_len]
        ELSE /\ beat' = [beat EXCEPT ![b].pc = "val_fence",
                                     ![b].queued = upsert_lane,
                                     ![b].snap = ReservedTasks,
                                     ![b].queue_len = queue_len]
             /\ UNCHANGED <<block_validate, limiter>>
    /\ UNCHANGED <<probe, heartbeat, catalog, upsert_lane, upserter, redis_fence, lifecycle, redis_locks, task, next_task,
                   database>>

\* the signal is absent: the upsert lane's length is read; over the limit the
\* validator returns and the signal is set, otherwise the queued and reserved
\* task ids are snapshot
BeatValidateBegin(b) ==
    /\ beat[b].pc = "create"
    /\ beat[b].due = {}
    /\ lock_beat = b
    /\ ~block_validate
    /\ \E queue_len \in celery_get_queue_length(upsert_lane) :
        IF queue_len > PERMISSION_SYNC_VALIDATION_MAX_QUEUE_LEN
        THEN /\ block_validate' = TRUE
             /\ limiter' = SignalSet
             /\ beat' = [beat EXCEPT ![b].pc = "monitor",
                                     ![b].queue_len = queue_len]
        ELSE /\ beat' = [beat EXCEPT ![b].pc = "val_fence",
                                     ![b].queued = upsert_lane,
                                     ![b].snap = ReservedTasks,
                                     ![b].queue_len = queue_len]
             /\ UNCHANGED <<block_validate, limiter>>
    /\ UNCHANGED <<probe, heartbeat, catalog, upsert_lane, upserter, redis_fence, lifecycle, redis_locks, task, next_task,
                   database>>

\* the fences reset, and those whose active signal is renewed, by one pass
ValidatorResets(keys, queued_tasks, reserved_tasks) ==
    {c \in keys :
        validate_permission_sync_fence(c, queued_tasks, reserved_tasks)
            = "reset"}
ValidatorRenews(keys, queued_tasks, reserved_tasks) ==
    {c \in keys :
        validate_permission_sync_fence(c, queued_tasks, reserved_tasks)
            = "renew"}

\* lock_beat.reacquire(), the loop over active_fences, then the signal is set
BeatValidateFences(b) ==
    /\ beat[b].pc = "val_fence"
    /\ lock_beat = b
    /\ LET resets == ValidatorResets(active_fences, beat[b].queued,
                                     beat[b].snap)
           renews == ValidatorRenews(active_fences, beat[b].queued,
                                     beat[b].snap)
       IN /\ fence' = Deleted(fence, resets)
          /\ active' = [c \in DOMAIN active |->
                          IF c \in resets THEN FALSE
                          ELSE IF c \in renews THEN TRUE ELSE active[c]]
          /\ taskset' = ClearedSet(taskset, resets)
          /\ generator_complete' = Cleared(generator_complete, resets)
          /\ active_fences' = active_fences \ resets
    /\ block_validate' = TRUE
    /\ limiter' = SignalSet
    /\ beat' = [beat EXCEPT ![b].pc = "monitor",
                             ![b].queued = {}, ![b].snap = {},
                             ![b].queue_len = None]
    /\ UNCHANGED <<probe, heartbeat, catalog, upsert_lane, upserter, lifecycle, redis_locks, task, next_task, database>>

\* lock_beat.reacquire() inside the validator raises LockError: logged
BeatValidateLockLost(b) ==
    /\ beat[b].pc = "val_fence"
    /\ lock_beat # b
    /\ beat' = [beat EXCEPT ![b].pc = "val_except",
                             ![b].queued = {}, ![b].snap = {},
                             ![b].queue_len = None]
    /\ UNCHANGED <<probe, heartbeat, catalog, upsert_lane, upserter, limiter, redis_fence, block_validate, lifecycle, redis_locks,
                   task, next_task, database>>

\* any other exception inside the validator (a Redis error, the soft time
\* limit): caught by the tick and logged
BeatValidateFail(b) ==
    /\ beat[b].pc = "val_fence"
    /\ beat' = [beat EXCEPT ![b].pc = "val_except",
                             ![b].queued = {}, ![b].snap = {},
                             ![b].queue_len = None]
    /\ UNCHANGED <<probe, heartbeat, catalog, upsert_lane, upserter, limiter, redis_fence, block_validate, lifecycle, redis_locks,
                   task, next_task, database>>

\* faulty variant: after an exception the signal is not set
BeatValidateSignalSkipped(b) ==
    /\ beat[b].pc = "val_except"
    /\ beat' = [beat EXCEPT ![b].pc = "monitor"]
    /\ UNCHANGED <<probe, heartbeat, catalog, upsert_lane, upserter, limiter, redis_fence, block_validate, lifecycle, redis_locks,
                   task, next_task, database>>

\* after the validator raised, the signal is set all the same
BeatValidateSignal(b) ==
    /\ beat[b].pc = "val_except"
    /\ block_validate' = TRUE
    /\ limiter' = SignalSet
    /\ beat' = [beat EXCEPT ![b].pc = "monitor"]
    /\ UNCHANGED <<probe, heartbeat, catalog, upsert_lane, upserter, redis_fence, lifecycle, redis_locks, task, next_task,
                   database>>

----------------------------------------------------------------------------
\* monitor_ccpair_permissions_taskset, for every key of active_fences

\* faulty variant: the payload is not parsed before the fence is finalized
FinalizesUnparsed(c) ==
    /\ fenced(c)
    /\ generator_complete[c] # None
    /\ get_remaining(c) = 0

\* faulty variant: the taskset is not waited for
FinalizesUndrained(c) ==
    /\ fenced(c)
    /\ generator_complete[c] # None
    /\ Parses(fence[c])

\* the monitor finalizes the sync of cc pair c
Finalizes(c) ==
    /\ fenced(c)
    /\ generator_complete[c] # None
    /\ Parses(fence[c])
    /\ get_remaining(c) = 0

\* faulty variant: the status is written without the document count
UpdateStatusOnly(rows, status, num_docs) ==
    IF rows = <<>> THEN rows
    ELSE [rows EXCEPT ![Len(rows)] =
            [status |-> status, num_docs_synced |-> None]]

\* update_sync_record_status on the latest row of the cc pair
update_sync_record_status(rows, status, num_docs) ==
    IF rows = <<>> THEN rows
    ELSE [rows EXCEPT ![Len(rows)] =
            [status |-> status, num_docs_synced |-> num_docs]]

\* lock_beat.reacquire(); stale index entries are removed, every other fence
\* is monitored
BeatMonitor(b) ==
    /\ beat[b].pc = "monitor"
    /\ lock_beat = b
    /\ LET stale == {c \in active_fences : ~fenced(c)}
           done == {c \in active_fences : Finalizes(c)}
       IN /\ last_time_perm_sync' =
                [c \in DOMAIN last_time_perm_sync |->
                    IF c \in done THEN fence[c].started
                                   ELSE last_time_perm_sync[c]]
          /\ sync_records' =
                [c \in DOMAIN sync_records |->
                    IF c \in done
                    THEN update_sync_record_status(
                             sync_records[c], "SUCCESS", generator_complete[c])
                    ELSE sync_records[c]]
          /\ fence' = Deleted(fence, done)
          /\ active' = ClearedFlag(active, done)
          /\ taskset' = ClearedSet(taskset, done)
          /\ generator_complete' = Cleared(generator_complete, done)
          /\ active_fences' = (active_fences \ stale) \ done
    /\ beat' = [beat EXCEPT ![b].pc = "finish"]
    /\ UNCHANGED <<probe, heartbeat, catalog, upsert_lane, upserter, limiter, block_validate, lifecycle, redis_locks, task, next_task>>

\* the tick is over: the finally block releases the beat lock, return True
BeatFinish(b) ==
    /\ beat[b].pc = "finish"
    /\ BeatExit(b)
    /\ UNCHANGED <<probe, heartbeat, catalog, upsert_lane, upserter, limiter, redis_fence, block_validate, lifecycle, fn_lock, sync_lock,
                   task, next_task, database>>

----------------------------------------------------------------------------
\* connector_permission_sync_generator_task

TaskAt(t, pc) == [task EXCEPT ![t].pc = pc, ![t].tasks_generated = 0]

\* a worker prefetches the queued task (reserved, not yet acknowledged)
GenPrefetch(t) ==
    /\ task[t].pc = "queued"
    /\ task' = TaskAt(t, "reserved")
    /\ UNCHANGED <<probe, heartbeat, catalog, upsert_lane, upserter, limiter, redis_fence, block_validate, lifecycle, redis_locks,
                   next_task, database, beat>>

\* acks_late=False: the task is acknowledged and starts to execute
GenStart(t) ==
    /\ task[t].pc = "reserved"
    /\ task' = TaskAt(t, "wait")
    /\ UNCHANGED <<probe, heartbeat, catalog, upsert_lane, upserter, limiter, redis_fence, block_validate, lifecycle, redis_locks,
                   next_task, database, beat>>

\* wait loop: the fence does not exist: ValueError, outside the try block
GenFenceMissing(t) ==
    /\ task[t].pc = "wait"
    /\ ~fenced(task[t].cc)
    /\ task' = TaskAt(t, "failed")
    /\ UNCHANGED <<probe, heartbeat, catalog, upsert_lane, upserter, limiter, redis_fence, block_validate, lifecycle, redis_locks,
                   next_task, database, beat>>

\* wait loop: celery_task_id still None after
\* CELERY_TASK_WAIT_FOR_FENCE_TIMEOUT: ValueError, outside the try block
GenWaitTimeout(t) ==
    /\ task[t].pc = "wait"
    /\ fenced(task[t].cc)
    /\ fence[task[t].cc].celery_task_id = None
    /\ task' = TaskAt(t, "failed")
    /\ UNCHANGED <<probe, heartbeat, catalog, upsert_lane, upserter, limiter, redis_fence, block_validate, lifecycle, redis_locks,
                   next_task, database, beat>>

\* faulty variant: the wait ends as soon as the fence exists
FenceReadyUnfilled(c) == fenced(c)

\* the fence is ready: the payload has a celery_task_id
FenceReady(c) == fenced(c) /\ Parses(fence[c]) /\ fence[c].celery_task_id # None

\* the fence is ready and lock.acquire(blocking=False) succeeds
GenAcquire(t) ==
    /\ task[t].pc = "wait"
    /\ FenceReady(task[t].cc)
    /\ sync_lock[task[t].cc] = None
    /\ sync_lock' = [sync_lock EXCEPT ![task[t].cc] = t]
    /\ task' = TaskAt(t, "locked")
    /\ UNCHANGED <<probe, heartbeat, catalog, upsert_lane, upserter, limiter, redis_fence, block_validate, lifecycle, lock_beat, fn_lock,
                   next_task, database, beat>>

\* faulty variant: the task that did not get the lock releases it
GenLockHeldReleases(t) ==
    /\ task[t].pc = "wait"
    /\ FenceReady(task[t].cc)
    /\ sync_lock[task[t].cc] # None
    /\ sync_lock' = [sync_lock EXCEPT ![task[t].cc] = None]
    /\ task' = TaskAt(t, "done")
    /\ UNCHANGED <<probe, heartbeat, catalog, upsert_lane, upserter, limiter, redis_fence, block_validate,
                   lifecycle, lock_beat, fn_lock, next_task, database, beat>>

\* the fence is ready and the lock is held: warning, return None
GenLockHeld(t) ==
    /\ task[t].pc = "wait"
    /\ FenceReady(task[t].cc)
    /\ sync_lock[task[t].cc] # None
    /\ task' = TaskAt(t, "done")
    /\ UNCHANGED <<probe, heartbeat, catalog, upsert_lane, upserter, limiter, redis_fence, block_validate, lifecycle, redis_locks,
                   next_task, database, beat>>

\* faulty variant: the except block leaves the fence in place
GenCleanupKeepsFence(t) ==
    /\ generator_complete' = Cleared(generator_complete, {task[t].cc})
    /\ taskset' = ClearedSet(taskset, {task[t].cc})
    /\ UNCHANGED <<probe, heartbeat, catalog, upsert_lane, upserter, limiter, fence, active_fences>>
    /\ sync_lock' = [sync_lock EXCEPT ![task[t].cc] = ReleaseIfOwned(@, t)]
    /\ task' = TaskAt(t, "raised")

\* the except block (generator_clear, taskset_clear, set_fence(None), raise)
\* and the finally block (release the lock when owned)
GenCleanup(t) ==
    /\ generator_complete' = Cleared(generator_complete, {task[t].cc})
    /\ taskset' = ClearedSet(taskset, {task[t].cc})
    /\ fence' = FenceSet(fence, task[t].cc, NoFence)
    /\ active_fences' = IndexRemove(active_fences, task[t].cc)
    /\ sync_lock' = [sync_lock EXCEPT ![task[t].cc] = ReleaseIfOwned(@, t)]
    /\ task' = TaskAt(t, "raised")

\* the sync config of the cc pair's source, as the generator resolves it
HasDocSync(c) ==
    /\ source_perm_sync_config[c].present
    /\ source_perm_sync_config[c].doc_sync_config.present

\* faulty variant: the return skips the finally block
GenReturnKeepsLock(t) ==
    /\ task' = TaskAt(t, "returned")
    /\ UNCHANGED <<probe, heartbeat, catalog, upsert_lane, upserter, limiter, redis_fence, block_validate,
                   lifecycle, redis_locks, next_task, database, beat>>

\* `return None` inside the try block: the finally block releases the lock
GenReturn(t) ==
    /\ sync_lock' = [sync_lock EXCEPT ![task[t].cc] = ReleaseIfOwned(@, t)]
    /\ task' = TaskAt(t, "returned")
    /\ UNCHANGED <<probe, heartbeat, catalog, upsert_lane, upserter, limiter, redis_fence, block_validate,
                   lifecycle, lock_beat, fn_lock, next_task, database, beat>>

\* no sync config for the source: logged as an error, return None
GenNoSyncConfig(t) ==
    /\ task[t].pc = "locked"
    /\ ~source_perm_sync_config[task[t].cc].present
    /\ GenReturn(t)

\* no doc_sync_config but a censoring_config: return None
GenCensoringOnly(t) ==
    /\ task[t].pc = "locked"
    /\ source_perm_sync_config[task[t].cc].present
    /\ ~source_perm_sync_config[task[t].cc].doc_sync_config.present
    /\ source_perm_sync_config[task[t].cc].censoring_config
    /\ GenReturn(t)

\* neither doc_sync_config nor censoring_config: ValueError
GenNoDocSyncFunc(t) ==
    /\ task[t].pc = "locked"
    /\ source_perm_sync_config[task[t].cc].present
    /\ ~source_perm_sync_config[task[t].cc].doc_sync_config.present
    /\ ~source_perm_sync_config[task[t].cc].censoring_config
    /\ GenCleanup(t)
    /\ UNCHANGED <<probe, heartbeat, catalog, upsert_lane, upserter, limiter, active, block_validate, lifecycle,
                   lock_beat, fn_lock, next_task, database, beat>>

\* faulty variant: the run starts without writing started
GenLoadNoStarted(t) ==
    /\ task[t].pc = "locked"
    /\ HasDocSync(task[t].cc)
    /\ fenced(task[t].cc)
    /\ sync_lock[task[t].cc] = t
    /\ task' = TaskAt(t, "sync")
    /\ UNCHANGED <<probe, heartbeat, catalog, upsert_lane, upserter, limiter, redis_fence, block_validate, lifecycle, redis_locks,
                   next_task, database, beat>>

\* cc pair loaded and validated, payload read, set_fence with started = now,
\* PermissionSyncCallback constructed (redis_lock.reacquire())
GenLoad(t) ==
    /\ task[t].pc = "locked"
    /\ HasDocSync(task[t].cc)
    /\ fenced(task[t].cc)
    /\ sync_lock[task[t].cc] = t
    /\ fence' = FenceSet(fence, task[t].cc,
                         [fence[task[t].cc] EXCEPT !.started = StartTime(t)])
    /\ active_fences' = IndexAdd(active_fences, task[t].cc)
    /\ task' = TaskAt(t, "sync")
    /\ UNCHANGED <<probe, heartbeat, catalog, upsert_lane, upserter, limiter, active, taskset, generator_complete, block_validate,
                   lifecycle, redis_locks, next_task, database, beat>>

\* the cc pair is gone, validate_ccpair_for_user raises, no payload is found,
\* or the callback's reacquire raises LockError
GenLoadFail(t) ==
    /\ task[t].pc = "locked"
    /\ GenCleanup(t)
    /\ UNCHANGED <<probe, heartbeat, catalog, upsert_lane, upserter, limiter, active, block_validate, lifecycle, lock_beat, fn_lock,
                   next_task, database, beat>>

\* doc_sync_func yields one DocExternalAccess; update_db upserts it
GenEmit(t) ==
    /\ task[t].pc = "sync"
    /\ task[t].tasks_generated < MaxDocs
    /\ task' = [task EXCEPT ![t].tasks_generated = @ + 1]
    /\ UNCHANGED <<probe, heartbeat, catalog, upsert_lane, upserter, limiter, redis_fence, block_validate, lifecycle, redis_locks,
                   next_task, database, beat>>

\* doc_sync_func calls callback.progress: set_active(), and the periodic
\* redis_lock.reacquire() succeeds or is not yet due
GenProgress(t) ==
    /\ task[t].pc = "sync"
    /\ active' = [active EXCEPT ![task[t].cc] = TRUE]
    /\ UNCHANGED <<probe, heartbeat, catalog, upsert_lane, upserter, limiter, fence, taskset, generator_complete, active_fences,
                   block_validate, lifecycle, redis_locks, task, next_task,
                   database, beat>>

\* callback.progress: set_active(), then redis_lock.reacquire() raises
\* LockError, which aborts the run
GenProgressLockLost(t) ==
    /\ task[t].pc = "sync"
    /\ sync_lock[task[t].cc] # t
    /\ active' = [active EXCEPT ![task[t].cc] = TRUE]
    /\ GenCleanup(t)
    /\ UNCHANGED <<probe, heartbeat, catalog, upsert_lane, upserter, limiter, block_validate, lifecycle, lock_beat, fn_lock, next_task,
                   database, beat>>

\* faulty variant: the except block moves the latest SyncRecord to FAILURE
GenRaiseMarksFailure(t) ==
    /\ task[t].pc = "sync"
    /\ GenCleanup(t)
    /\ sync_records' =
          [sync_records EXCEPT ![task[t].cc] =
              update_sync_record_status(@, "FAILURE", None)]
    /\ UNCHANGED <<probe, heartbeat, catalog, upsert_lane, upserter, limiter, active, block_validate, lifecycle,
                   lock_beat, fn_lock, next_task, last_time_perm_sync, beat>>

\* doc_sync_func raises (source error, should_stop) or the upsert is fatal
GenRaise(t) ==
    /\ task[t].pc = "sync"
    /\ GenCleanup(t)
    /\ UNCHANGED <<probe, heartbeat, catalog, upsert_lane, upserter, limiter, active, block_validate, lifecycle, lock_beat, fn_lock,
                   next_task, database, beat>>

\* faulty variant: should_stop answers True whatever the stop fence
ShouldStopAlways(c) == TRUE

\* PermissionSyncCallback.should_stop
should_stop(c) == stop_fenced[c]

\* doc_sync_func polls callback.should_stop() and gets True
GenShouldStop(t) ==
    /\ task[t].pc = "sync"
    /\ should_stop(task[t].cc)
    /\ task' = [task EXCEPT ![t].pc = "stopping"]
    /\ UNCHANGED <<probe, heartbeat, catalog, upsert_lane, upserter, limiter, redis_fence, block_validate,
                   lifecycle, redis_locks, next_task, database, beat>>

\* doc_sync_func raises in response; the except and finally blocks run
GenStopped(t) ==
    /\ task[t].pc = "stopping"
    /\ GenCleanup(t)
    /\ UNCHANGED <<probe, heartbeat, catalog, upsert_lane, upserter, limiter, active, block_validate, lifecycle,
                   lock_beat, fn_lock, next_task, database, beat>>

\* faulty variant: the run ends without writing generator_complete
GenCompleteSilent(t) ==
    /\ task[t].pc = "sync"
    /\ sync_lock' = [sync_lock EXCEPT ![task[t].cc] = ReleaseIfOwned(@, t)]
    /\ task' = TaskAt(t, "done")
    /\ UNCHANGED <<probe, heartbeat, catalog, upsert_lane, upserter, limiter, redis_fence, block_validate, lifecycle, lock_beat,
                   fn_lock, next_task, database, beat>>

\* the sequence is exhausted: generator_complete = tasks_generated, and the
\* finally block releases the lock
GenComplete(t) ==
    /\ task[t].pc = "sync"
    /\ generator_complete' =
          [generator_complete EXCEPT ![task[t].cc] = task[t].tasks_generated]
    /\ sync_lock' = [sync_lock EXCEPT ![task[t].cc] = ReleaseIfOwned(@, t)]
    /\ task' = TaskAt(t, "done")
    /\ UNCHANGED <<probe, heartbeat, catalog, upsert_lane, upserter, limiter, fence, active, taskset, active_fences, block_validate,
                   lifecycle, lock_beat, fn_lock, next_task, database, beat>>

\* the worker is killed: no handler runs
GenCrash(t) ==
    /\ Executing(t)
    /\ task' = TaskAt(t, "dead")
    /\ UNCHANGED <<probe, heartbeat, catalog, upsert_lane, upserter, limiter, redis_fence, block_validate, lifecycle, redis_locks,
                   next_task, database, beat>>

----------------------------------------------------------------------------
\* Environment: TTL expiry and the other lifecycle operations.

ActiveExpire(c) ==
    /\ active[c]
    /\ active' = [active EXCEPT ![c] = FALSE]
    /\ UNCHANGED <<probe, heartbeat, catalog, upsert_lane, upserter, limiter, fence, taskset, generator_complete, active_fences,
                   block_validate, lifecycle, redis_locks, task, next_task,
                   database, beat>>

BlockValidateExpire ==
    /\ block_validate
    /\ block_validate' = FALSE
    /\ limiter' = SignalGone
    /\ UNCHANGED <<probe, heartbeat, catalog, upsert_lane, upserter, redis_fence, lifecycle, redis_locks, task, next_task,
                   database, beat>>

BeatLockExpire ==
    /\ lock_beat # None
    /\ lock_beat' = None
    /\ UNCHANGED <<probe, heartbeat, catalog, upsert_lane, upserter, limiter, redis_fence, block_validate, lifecycle, fn_lock, sync_lock,
                   task, next_task, database, beat>>

FnLockExpire ==
    /\ fn_lock # None
    /\ fn_lock' = None
    /\ UNCHANGED <<probe, heartbeat, catalog, upsert_lane, upserter, limiter, redis_fence, block_validate, lifecycle, lock_beat, sync_lock,
                   task, next_task, database, beat>>

SyncLockExpire(c) ==
    /\ sync_lock[c] # None
    /\ sync_lock' = [sync_lock EXCEPT ![c] = None]
    /\ UNCHANGED <<probe, heartbeat, catalog, upsert_lane, upserter, limiter, redis_fence, block_validate, lifecycle, lock_beat, fn_lock,
                   task, next_task, database, beat>>

\* a connector deletion starts or ends
DeleteFenceToggle(c) ==
    /\ delete_fenced' = [delete_fenced EXCEPT ![c] = ~@]
    /\ UNCHANGED <<probe, heartbeat, catalog, upsert_lane, upserter, limiter, redis_fence, block_validate, prune_fenced,
                   stop_fenced, redis_locks,
                   task, next_task, database, beat>>

\* an external caller sets or removes the stop fence of the cc pair
StopFenceToggle(c) ==
    /\ stop_fenced' = [stop_fenced EXCEPT ![c] = ~@]
    /\ UNCHANGED <<probe, heartbeat, catalog, upsert_lane, upserter, limiter, redis_fence, block_validate,
                   delete_fenced, prune_fenced, redis_locks, task, next_task,
                   database, beat>>

\* a pruning run starts or ends
PruneFenceToggle(c) ==
    /\ prune_fenced' = [prune_fenced EXCEPT ![c] = ~@]
    /\ UNCHANGED <<probe, heartbeat, catalog, upsert_lane, upserter, limiter, redis_fence, block_validate, delete_fenced,
                   stop_fenced, redis_locks,
                   task, next_task, database, beat>>

----------------------------------------------------------------------------

\* the steps of a tick that holds the beat lock
TickStep(b) ==
    \/ BeatAcquire(b)
    \/ BeatDue(b)
    \/ BeatSoftTimeLimit(b)
    \/ TryBlocked(b)
    \/ TryBegin(b)
    \/ TryInsertRecord(b)
    \/ TrySetFence(b)
    \/ TrySend(b)
    \/ TrySendFail(b)
    \/ TryFill(b)
    \/ BeatValidateBlocked(b)
    \/ BeatValidateBegin(b)
    \/ BeatValidateFences(b)
    \/ BeatValidateFail(b)
    \/ BeatValidateSignal(b)
    \/ BeatMonitor(b)
    \/ BeatFinish(b)

BeatStep(b) ==
    \/ TickStep(b)
    \/ BeatAcquireFail(b)

GenStep(t) ==
    \/ GenPrefetch(t)
    \/ GenStart(t)
    \/ GenFenceMissing(t)
    \/ GenWaitTimeout(t)
    \/ GenAcquire(t)
    \/ GenLockHeld(t)
    \/ GenLoad(t)
    \/ GenLoadFail(t)
    \/ GenEmit(t)
    \/ GenProgress(t)
    \/ GenProgressLockLost(t)
    \/ GenRaise(t)
    \/ GenComplete(t)
    \/ GenCrash(t)

\* TTL expiry of the signals and of the generator's lock
ExpiryStep ==
    \/ \E c \in CCPairs : ActiveExpire(c)
    \/ BlockValidateExpire
    \/ \E c \in CCPairs : SyncLockExpire(c)

\* deletion and pruning of the connector, run by other tasks
LifecycleStep ==
    \/ \E c \in CCPairs : DeleteFenceToggle(c)
    \/ \E c \in CCPairs : PruneFenceToggle(c)

\* The beat lock and the function lock outlive the sections they guard: a tick
\* reacquires the beat lock at every stage, and the function lock spans five
\* Redis and database calls.
Next ==
    \/ \E b \in Beats : BeatStep(b)
    \/ \E t \in TaskIds : GenStep(t)
    \/ ExpiryStep

Spec == Init /\ [][Next]_vars

\* One beat process, with connector deletion and pruning going on
OneBeat == CHOOSE b \in Beats : TRUE

NextLifecycle ==
    \/ TickStep(OneBeat)
    \/ \E t \in TaskIds : GenStep(t)
    \/ ExpiryStep
    \/ LifecycleStep

SpecLifecycle == Init /\ [][NextLifecycle]_vars

\* Spec with its scheduling: celery beat keeps ticking in every beat process,
\* the rate-limit signal expires, and the ticks are not cut short for ever:
\* again and again a tick runs its validator pass over the fences and its
\* monitor pass.
SpecFair ==
    /\ Spec
    /\ \A b \in Beats : WF_vars(BeatStep(b))
    /\ \A b \in Beats : SF_vars(BeatValidateFences(b))
    /\ \A b \in Beats : SF_vars(BeatMonitor(b))
    /\ WF_vars(BlockValidateExpire)
    /\ []<><<\E b \in Beats : BeatValidateFences(b)>>_vars
    /\ []<><<\E b \in Beats : BeatMonitor(b)>>_vars

\* The error-free run: one beat process, no exception, no crash, and every
\* TTL but the rate-limit signal's outlasting the sync.
HappyBeat(b) ==
    \/ BeatAcquire(b)
    \/ BeatDue(b)
    \/ TryBlocked(b)
    \/ TryBegin(b)
    \/ TryInsertRecord(b) /\ beat'[b].rec_ok
    \/ TrySetFence(b)
    \/ TrySend(b)
    \/ TryFill(b)
    \/ BeatValidateBlocked(b)
    \/ BeatValidateBegin(b)
    \/ BeatValidateFences(b)
    \/ BeatMonitor(b)
    \/ BeatFinish(b)

HappyGen(t) ==
    \/ GenPrefetch(t)
    \/ GenStart(t)
    \/ GenAcquire(t)
    \/ GenLoad(t)
    \/ GenEmit(t)
    \/ GenProgress(t)
    \/ GenComplete(t)

NextHappy ==
    \/ HappyBeat(OneBeat)
    \/ \E t \in TaskIds : HappyGen(t)
    \/ BlockValidateExpire

\* celery beat keeps scheduling the tick and the worker keeps running the
\* generator it started
SpecHappy ==
    /\ Init /\ [][NextHappy]_vars
    /\ WF_vars(HappyBeat(OneBeat))
    /\ \A t \in TaskIds : WF_vars(HappyGen(t))

\* The run whose only faults are killed workers and the TTLs that run out
\* behind them; a generator overtaken by a reset or by an expired lock takes
\* the exits the code then forces on it.
CrashGen(t) ==
    \/ HappyGen(t)
    \/ GenFenceMissing(t)
    \/ GenLockHeld(t)
    \/ GenLoadFail(t) /\ ~fenced(task[t].cc)
    \/ GenProgressLockLost(t)

NextCrash ==
    \/ HappyBeat(OneBeat)
    \/ \E t \in TaskIds : CrashGen(t)
    \/ \E t \in TaskIds : GenCrash(t)
    \/ ExpiryStep

\* as SpecHappy; moreover the signals expire, and the upsert lane is not
\* over the validator's limit for ever
SpecCrash ==
    /\ Init /\ [][NextCrash]_vars
    /\ WF_vars(HappyBeat(OneBeat))
    /\ SF_vars(BeatValidateBegin(OneBeat) /\ beat'[OneBeat].pc = "val_fence")
    /\ \A t \in TaskIds : WF_vars(CrashGen(t))
    /\ \A c \in CCPairs : WF_vars(ActiveExpire(c))
    /\ WF_vars(BlockValidateExpire)

----------------------------------------------------------------------------
\* PermissionSyncCallback on its own: one callback object, the clock, the
\* sync lock and the active signal it works on.

\* faulty variant: the lock is re-extended on every call
ProgressEveryCall(h) ==
    IF ~h.owned
    THEN [h EXCEPT !.active = TRUE, !.raised = TRUE, !.reacquired = FALSE,
                   !.calls = @ + 1]
    ELSE [h EXCEPT !.active = TRUE, !.reacquired = TRUE,
                   !.last_lock_monotonic = h.now, !.calls = @ + 1]

\* PermissionSyncCallback.progress: set_active(), then the reacquire when
\* CELERY_GENERIC_BEAT_LOCK_TIMEOUT / 4 has gone by since the last one;
\* LockError is logged and raised again
progress(h) ==
    IF 4 * (h.now - h.last_lock_monotonic) >= CELERY_GENERIC_BEAT_LOCK_TIMEOUT
    THEN IF ~h.owned
         THEN [h EXCEPT !.active = TRUE, !.raised = TRUE,
                        !.reacquired = FALSE, !.calls = @ + 1]
         ELSE [h EXCEPT !.active = TRUE, !.reacquired = TRUE,
                        !.last_lock_monotonic = h.now, !.calls = @ + 1]
    ELSE [h EXCEPT !.active = TRUE, !.reacquired = FALSE, !.calls = @ + 1]

\* PermissionSyncCallback.__init__: redis_lock.reacquire() succeeded
InitHeartbeat ==
    /\ InitSystem
    /\ InitCatalog
    /\ probe = NoProbe
    /\ heartbeat \in {[NoHeartbeat EXCEPT !.owned = TRUE, !.active = a] :
                         a \in BOOLEAN}

HeartbeatFrame ==
    UNCHANGED <<probe, catalog, upsert_lane, upserter, limiter, redis_fence, block_validate,
                lifecycle, redis_locks, task, next_task, database, beat>>

\* doc_sync_func calls callback.progress
HbProgress ==
    /\ ~heartbeat.raised
    /\ heartbeat.calls < MaxCalls
    /\ heartbeat' = progress(heartbeat)
    /\ HeartbeatFrame

\* time.monotonic() moves on
HbClock ==
    /\ heartbeat.now < MaxClock
    /\ heartbeat' = [heartbeat EXCEPT !.now = @ + 1]
    /\ HeartbeatFrame

\* the sync lock runs out (CELERY_PERMISSIONS_SYNC_LOCK_TIMEOUT)
HbLockExpire ==
    /\ heartbeat.owned
    /\ heartbeat' = [heartbeat EXCEPT !.owned = FALSE]
    /\ HeartbeatFrame

\* the active signal runs out
HbActiveExpire ==
    /\ heartbeat.active
    /\ heartbeat' = [heartbeat EXCEPT !.active = FALSE]
    /\ HeartbeatFrame

NextHeartbeat ==
    \/ HbProgress
    \/ HbClock
    \/ HbLockExpire
    \/ HbActiveExpire

SpecHeartbeat == InitHeartbeat /\ [][NextHeartbeat]_vars

----------------------------------------------------------------------------
\* Cancellation: the error-free run, but for the stop fence that an external
\* caller sets and removes and that doc_sync_func answers by raising.
StopGen(t) ==
    \/ HappyGen(t)
    \/ GenShouldStop(t)
    \/ GenStopped(t)

NextStop ==
    \/ HappyBeat(OneBeat)
    \/ \E t \in TaskIds : StopGen(t)
    \/ BlockValidateExpire
    \/ \E c \in CCPairs : StopFenceToggle(c)

SpecStop ==
    /\ Init /\ [][NextStop]_vars
    /\ WF_vars(HappyBeat(OneBeat))
    /\ \A t \in TaskIds : WF_vars(StopGen(t))

----------------------------------------------------------------------------
\* The sources: every entry of the registry, and the indexing runs that go
\* on next to the permission sync.

\* the first indexing run of the cc pair succeeds
IndexSucceeds(c) ==
    /\ last_successful_index_time[c] = None
    /\ last_successful_index_time' =
          [last_successful_index_time EXCEPT ![c] = 0]
    /\ UNCHANGED <<probe, heartbeat, upsert_lane, upserter, limiter, source_perm_sync_config,
                   redis_fence,
                   block_validate, lifecycle, redis_locks, task, next_task,
                   database, beat>>

\* a release changes the registry entry of the cc pair's source
Deploy(c) ==
    /\ \E cfg \in SourceConfigs \ {source_perm_sync_config[c]} :
          source_perm_sync_config' =
              [source_perm_sync_config EXCEPT ![c] = cfg]
    /\ UNCHANGED <<probe, heartbeat, upsert_lane, upserter, limiter, last_successful_index_time,
                   redis_fence,
                   block_validate, lifecycle, redis_locks, task, next_task,
                   database, beat>>

\* what the generator does on a source without doc_sync_config
SourceStep(t) ==
    \/ GenNoSyncConfig(t)
    \/ GenCensoringOnly(t)
    \/ GenNoDocSyncFunc(t)

InitCatalogs ==
    /\ InitSystem
    /\ source_perm_sync_config \in [CCPairs -> SourceConfigs]
    /\ last_successful_index_time = [c \in CCPairs |-> None]
    /\ probe = NoProbe
    /\ heartbeat = NoHeartbeat

\* one beat process over a registry that does not change
NextCatalog ==
    \/ TickStep(OneBeat)
    \/ \E t \in TaskIds : GenStep(t)
    \/ ExpiryStep
    \/ \E c \in CCPairs : IndexSucceeds(c)

SpecCatalog == InitCatalogs /\ [][NextCatalog]_vars

\* one beat process over a registry that changes under the running tasks
NextSources ==
    \/ TickStep(OneBeat)
    \/ \E t \in TaskIds : GenStep(t)
    \/ \E t \in TaskIds : SourceStep(t)
    \/ ExpiryStep
    \/ \E c \in CCPairs : Deploy(c)

SpecSources == InitCatalogs /\ [][NextSources]_vars

----------------------------------------------------------------------------
\* The scheduler with its locks running out: the beat lock
\* (CELERY_GENERIC_BEAT_LOCK_TIMEOUT) and the function lock (LOCK_TIMEOUT)
\* expire under a slow tick, so that ticks overlap and reacquire raises.  The
\* generator lane is left out: every task sent stays queued.
LockStep ==
    \/ BeatLockExpire
    \/ FnLockExpire
    \/ BlockValidateExpire

NextLocks ==
    \/ \E b \in Beats : BeatStep(b)
    \/ \E b \in Beats : TryLockTimeout(b)
    \/ \E b \in Beats : BeatLockLost(b)
    \/ \E b \in Beats : BeatValidateLockLost(b)
    \/ LockStep

SpecLocks == Init /\ [][NextLocks]_vars

----------------------------------------------------------------------------
\* The due policy on its own: one evaluation for every combination of inputs.

SyncConfigs ==
    {[present |-> p,
      doc_sync_config |->
         [present |-> d, initial_index_should_sync |-> i,
          doc_sync_frequency |-> f],
      censoring_config |-> FALSE] :
        p \in BOOLEAN, d \in BOOLEAN, i \in BOOLEAN, f \in 1..2}

CCPairRows ==
    {[access_type |-> a, status |-> st, last_successful_index_time |-> ix,
      last_time_perm_sync |-> l] :
        a \in {"SYNC", "PRIVATE"}, st \in {"ACTIVE", "PAUSED"},
        ix \in {None, 0}, l \in {None} \cup Times}

InitDue ==
    /\ InitSystem
    /\ InitCatalog
    /\ heartbeat = NoHeartbeat
    /\ probe \in {[cc_pair |-> cp, sync_config |-> sc, multiplier |-> m,
                   now |-> n, evaluated |-> FALSE, result |-> FALSE] :
                      cp \in CCPairRows, sc \in SyncConfigs,
                      m \in get_doc_permission_sync_multiplier, n \in Times}

\* _is_external_doc_permissions_sync_due is called on the inputs
EvalDue ==
    /\ ~probe.evaluated
    /\ probe' = [probe EXCEPT
                    !.evaluated = TRUE,
                    !.result = _is_external_doc_permissions_sync_due(
                                  probe.cc_pair, probe.sync_config,
                                  probe.multiplier, probe.now)]
    /\ UNCHANGED <<heartbeat, catalog, upsert_lane, upserter, limiter, redis_fence,
                   block_validate, lifecycle,
                   redis_locks, task, next_task, database, beat>>

SpecDue == InitDue /\ [][EvalDue]_vars

----------------------------------------------------------------------------
\* Properties.

\* generator tasks of cc pair c past the permissions_sync_lock acquisition
InFlight(c) ==
    {t \in TaskIds : task[t].cc = c /\ task[t].pc \in {"locked", "sync"}}

\* C1: at no time are two generator tasks of the same cc pair past the
\* acquisition of the permissions sync lock.
C1_AtMostOneSyncInFlight ==
    \A c \in CCPairs : Cardinality(InFlight(c)) <= 1

\* C2: a call of try_creating_permissions_sync_task for a cc pair whose
\* permissions, delete or prune fence is set returns None and changes nothing:
\* no Redis key, no lock, no SyncRecord, no task.
C2_BlockedChangesNothing ==
    [][\A b \in Beats : \A c \in CCPairs :
          ( /\ beat[b].pc = "create"
            /\ c \in beat[b].due
            /\ fenced(c) \/ delete_fenced[c] \/ prune_fenced[c]
            /\ beat'[b].pc \in {"create", "tc_insert"}
            /\ c \notin beat'[b].due \/ beat'[b].cc = c )
          => /\ beat'[b].pc = "create"
             /\ beat'[b].cc = None
             /\ UNCHANGED <<probe, heartbeat, catalog, upsert_lane, upserter, limiter, redis_fence, redis_locks, database, task, next_task>>
      ]_vars

\* C2 witness: the cc pair was due, no fence was ever created for it, its
\* delete fence is set, and the tick has passed it.
C2_Witness ==
    \E b \in Beats : \E c \in CCPairs :
        /\ beat[b].pc = "create"
        /\ beat[b].due = {}
        /\ last_time_perm_sync[c] = None
        /\ next_task = 1
        /\ delete_fenced[c]
        /\ ~prune_fenced[c]

\* beat processes inside a tick
Ticking == {b \in Beats : beat[b].pc # "idle"}

\* C3: of two simultaneous ticks exactly one acquires the beat lock; the other
\* returns None at once and changes nothing, so nothing is created twice.
C3_NonOverlappingBeats ==
    /\ [](Cardinality(Ticking) <= 1)
    /\ [][\A b \in Beats :
            /\ (beat[b].pc = "idle" /\ beat'[b].pc # "idle")
                  => lock_beat = None /\ lock_beat' = b
            /\ (beat'[b] # beat[b] /\ beat'[b].ret = "None")
                  => /\ lock_beat \notin {None, b}
                     /\ beat'[b].pc = "idle"
                     /\ UNCHANGED <<probe, heartbeat, catalog, upsert_lane, upserter, limiter, redis_fence, block_validate, lifecycle,
                                    redis_locks, database, task, next_task>>
       ]_vars

\* C3 witness: one process is inside its tick, the other was refused.
C3_Witness ==
    \E b1, b2 \in Beats :
        /\ b1 # b2
        /\ beat[b1].pc = "tc_send"
        /\ lock_beat = b1
        /\ beat[b2].pc = "idle"
        /\ beat[b2].ret = "None"

\* the latest SyncRecord row of cc pair c is IN_PROGRESS
RecordInProgress(c) ==
    /\ sync_records[c] # <<>>
    /\ sync_records[c][Len(sync_records[c])].status = "IN_PROGRESS"

\* C4: whenever a permissions fence exists for a cc pair, the IN_PROGRESS
\* SyncRecord row of that attempt exists.
C4_FenceHasRecord ==
    \A c \in CCPairs : fenced(c) => RecordInProgress(c)

\* C4, amended: the scheduler writes a fence only after the insert of the
\* attempt's SyncRecord has returned; when that insert did not raise, the
\* IN_PROGRESS row is there when the fence is written, and it stays as it is
\* for as long as the fence exists.
C4_RecordBeforeFence ==
    [][\A c \in CCPairs :
          /\ (~fenced(c) /\ fenced(c)')
                => \E b \in Beats :
                      /\ beat[b].cc = c
                      /\ beat[b].pc \in {"tc_fence", "tc_fill"}
                      /\ beat[b].rec_ok => RecordInProgress(c)
          /\ (fenced(c) /\ fenced(c)')
                => sync_records'[c] = sync_records[c]
      ]_vars

\* C4 witness: a fence just written, its row inserted before it.
C4_Witness ==
    \E b \in Beats : \E c \in CCPairs :
        /\ beat[b].pc = "tc_send"
        /\ beat[b].cc = c
        /\ beat[b].rec_ok
        /\ fenced(c)
        /\ fence[c].celery_task_id = None
        /\ RecordInProgress(c)

\* a fence without celery_task_id whose creating call has returned
PartialOrphan(c) ==
    /\ fenced(c)
    /\ Parses(fence[c])
    /\ fence[c].celery_task_id = None
    /\ \A b \in Beats : beat[b].cc # c

\* C5: a fence left with celery_task_id = None by a failed
\* try_creating_permissions_sync_task is reset on a later beat tick.
C5_PartialFenceReaped ==
    \A c \in CCPairs : PartialOrphan(c) ~> ~fenced(c)

\* the generator task of the fence of cc pair c crashed, and the active
\* signal has expired
CrashedExpired(c) ==
    /\ fenced(c)
    /\ Parses(fence[c])
    /\ fence[c].celery_task_id \in TaskIds
    /\ task[fence[c].celery_task_id].pc = "dead"
    /\ ~active[c]

\* the validator stage of a tick ends in this step
ValidatorStageEnds(b) ==
    beat[b].pc \in {"create", "val_fence", "val_except"} /\ beat'[b].pc = "monitor"

\* C6: a fence whose generator task crashed and whose active signal has
\* expired is reset by the validator of the next beat tick.
C6_CrashResetNextTick ==
    [][\A b \in Beats : \A c \in CCPairs :
          (ValidatorStageEnds(b) /\ CrashedExpired(c)) => ~fenced(c)'
      ]_vars

\* the fence of cc pair c shows no sign of life to a validator pass that
\* took the reserved snapshot snap
NoSignOfLife(c, snap) ==
    /\ fenced(c)
    /\ Parses(fence[c])
    /\ fence[c].celery_task_id # None
    /\ ~(fence[c].celery_task_id \in TaskIds /\ InQueue(fence[c].celery_task_id))
    /\ fence[c].celery_task_id \notin snap
    /\ \/ taskset[c] = {}
       \/ \E m \in taskset[c] : m \notin snap
    /\ ~active[c]

\* a validator pass over the fences runs in this step
ValidatorPass(b) == beat[b].pc = "val_fence" /\ beat'[b].pc = "monitor"

\* C6, amended: a validator pass that runs (signal absent, upsert lane within
\* the limit) resets every fence whose task id is in neither the queue nor
\* the reserved snapshot, whose taskset is empty or has a missing member and
\* whose active signal has expired.
C6_CrashResetWhenValidated ==
    [][\A b \in Beats : \A c \in CCPairs :
          (ValidatorPass(b) /\ c \in active_fences
             /\ NoSignOfLife(c, beat[b].snap))
          => /\ ~fenced(c)'
             /\ ~active'[c]
             /\ generator_complete'[c] = None
             /\ taskset'[c] = {}
             /\ c \notin active_fences'
      ]_vars

\* C6 witness: the only generator ever queued is dead and its fence is gone,
\* seen right after a validator pass.
C6_Witness ==
    \E b \in Beats : \E c \in CCPairs :
        /\ beat[b].pc = "monitor"
        /\ block_validate
        /\ next_task = 2
        /\ task[1].pc = "dead"
        /\ task[1].cc = c
        /\ ~fenced(c)

\* C7: the validator resets a fence with a parseable payload only if its
\* celery_task_id is set, the task id is in neither the queue nor the
\* reserved set, the taskset is empty or has a missing member, and the
\* active signal is not live.
C7_ResetOnlyWithoutSignOfLife ==
    [][\A b \in Beats : \A c \in CCPairs :
          (ValidatorPass(b) /\ fenced(c) /\ Parses(fence[c]) /\ ~fenced(c)')
          => NoSignOfLife(c, beat[b].snap)
      ]_vars

\* C7 witness: a validator pass has left the fence of a running generator,
\* whose active signal is live, in place.
C7_Witness ==
    \E b \in Beats : \E c \in CCPairs :
        /\ beat[b].pc = "monitor"
        /\ block_validate
        /\ fenced(c)
        /\ fence[c].celery_task_id = 1
        /\ task[1].pc = "sync"
        /\ active[c]

\* C8: a generator task changes the fence or generator_complete of its cc
\* pair only while the stored payload is the one of its own attempt.
C8_OnlyOwnFence ==
    [][\A t \in TaskIds :
          ( /\ task[t].pc \in {"locked", "sync"}
            /\ task'[t] # task[t]
            /\ fenced(task[t].cc)
            /\ \/ fence'[task[t].cc] # fence[task[t].cc]
               \/ generator_complete'[task[t].cc] # generator_complete[task[t].cc] )
          => fence[task[t].cc].celery_task_id = t
      ]_vars

\* C9: generator_complete set on a fence means the doc_sync_func sequence of
\* that fence's generator was exhausted normally.
C9_CompleteMeansExhausted ==
    \A c \in CCPairs :
        (fenced(c) /\ Parses(fence[c]) /\ generator_complete[c] # None)
        => task[fence[c].id].pc = "done"

\* C10: within a fence's lifetime generator_complete is written once, by
\* that fence's generator when its sequence is exhausted.
C10_CompleteSetOnce ==
    [][\A c \in CCPairs :
          ( /\ fenced(c)
            /\ generator_complete'[c] # None
            /\ generator_complete'[c] # generator_complete[c] )
          => /\ generator_complete[c] = None
             /\ fence[c].celery_task_id \in TaskIds
             /\ task[fence[c].celery_task_id].pc = "sync"
             /\ task'[fence[c].celery_task_id].pc = "done"
      ]_vars

\* C11: within one generator run started is written, with id, submitted and
\* celery_task_id preserved, before the first upsert: the upsert loop is
\* entered only by the step that writes started, and upserts happen only in
\* the loop.
C11_StartedBeforeFirstUpsert ==
    [][\A t \in TaskIds :
          /\ (task[t].pc # "sync" /\ task'[t].pc = "sync")
             => /\ task[t].pc = "locked"
                /\ task'[t].tasks_generated = 0
                /\ fence'[task[t].cc].started = StartTime(t)
                /\ fence'[task[t].cc].started # None
                /\ fence'[task[t].cc].id = fence[task[t].cc].id
                /\ fence'[task[t].cc].submitted = fence[task[t].cc].submitted
                /\ fence'[task[t].cc].celery_task_id
                      = fence[task[t].cc].celery_task_id
          /\ (task'[t].tasks_generated > task[t].tasks_generated)
             => task[t].pc = "sync"
      ]_vars

\* C11 witness: a run that has upserted, its started on its own fence.
C11_Witness ==
    \E t \in TaskIds :
        /\ task[t].pc = "sync"
        /\ task[t].tasks_generated > 0
        /\ fence[task[t].cc].celery_task_id = t
        /\ fence[task[t].cc].started = StartTime(t)

\* C12: the generator leaves its fence-readiness wait for the lock only when
\* the fence exists, parses and has a celery_task_id; when it leaves by
\* raising (fence absent, or celery_task_id still null at the timeout) it has
\* taken no lock, upserted nothing and written nothing.
C12_WaitsForFilledFence ==
    [][\A t \in TaskIds :
          (task[t].pc = "wait" /\ task'[t].pc # "wait")
          => \/ task'[t].pc = "dead"
             \/ /\ task'[t].pc \in {"locked", "done"}
                /\ fenced(task[t].cc)
                /\ Parses(fence[task[t].cc])
                /\ fence[task[t].cc].celery_task_id # None
             \/ /\ task'[t].pc = "failed"
                /\ ~fenced(task[t].cc) \/ fence[task[t].cc].celery_task_id = None
                /\ task'[t].tasks_generated = 0
                /\ UNCHANGED <<probe, heartbeat, catalog, upsert_lane, upserter, limiter, redis_fence, sync_lock, database>>
      ]_vars

\* C12 witness: a generator gave up waiting on a fence that was never filled.
C12_Witness ==
    \E t \in TaskIds :
        /\ task[t].pc = "failed"
        /\ fenced(task[t].cc)
        /\ fence[task[t].cc].celery_task_id = None
        /\ sync_lock[task[t].cc] = None

\* C13: an exception after the sync lock was acquired clears
\* generator_complete and the taskset, deletes the fence, releases the lock
\* and re-raises; right after, the cc pair is not fenced.
C13_ExceptionCleansFence ==
    [][\A t \in TaskIds :
          /\ (task[t].pc \in {"locked", "sync"} /\ task'[t].pc # task[t].pc)
             => task'[t].pc \in {"sync", "raised", "done", "dead"}
          /\ (task[t].pc # "raised" /\ task'[t].pc = "raised")
             => /\ task[t].pc \in {"locked", "sync"}
                /\ generator_complete'[task[t].cc] = None
                /\ taskset'[task[t].cc] = {}
                /\ ~fenced(task[t].cc)'
                /\ task[t].cc \notin active_fences'
                /\ sync_lock'[task[t].cc] # t
      ]_vars

\* C13 witness: a generator raised out of its upsert loop and no fence is left.
C13_Witness ==
    \E t \in TaskIds :
        /\ task[t].pc = "raised"
        /\ ~fenced(task[t].cc)
        /\ generator_complete[task[t].cc] = None
        /\ sync_lock[task[t].cc] = None

MonitorPass(b) == beat[b].pc = "monitor" /\ beat'[b].pc = "finish"

\* C15: a monitor pass over a fence with generator_complete set and nothing
\* remaining marks the cc pair synced at payload.started, sets the latest
\* SyncRecord to SUCCESS with num_docs_synced = generator_complete, and
\* resets the fence.
C15_MonitorFinalizes ==
    [][\A b \in Beats : \A c \in CCPairs :
          ( /\ MonitorPass(b)
            /\ c \in active_fences
            /\ fenced(c)
            /\ Parses(fence[c])
            /\ generator_complete[c] # None
            /\ get_remaining(c) = 0 )
          => /\ last_time_perm_sync'[c] = fence[c].started
             /\ Len(sync_records'[c]) = Len(sync_records[c])
             /\ sync_records[c] # <<>>
                  => sync_records'[c][Len(sync_records[c])] =
                        [status |-> "SUCCESS",
                         num_docs_synced |-> generator_complete[c]]
             /\ ~fenced(c)'
             /\ ~active'[c]
             /\ taskset'[c] = {}
             /\ generator_complete'[c] = None
             /\ c \notin active_fences'
      ]_vars

\* C15 witness: right after a monitor pass the first sync is recorded as
\* SUCCESS with every produced document counted, and the fence is gone.
C15_Witness ==
    \E b \in Beats : \E c \in CCPairs :
        /\ beat[b].pc = "finish"
        /\ ~fenced(c)
        /\ c \notin active_fences
        /\ last_time_perm_sync[c] = StartTime(1)
        /\ Len(sync_records[c]) = 1
        /\ sync_records[c][1] =
              [status |-> "SUCCESS", num_docs_synced |-> MaxDocs]

\* C20: _is_external_doc_permissions_sync_due is true exactly when the cc pair
\* is SYNC and ACTIVE, a doc sync config exists, the initial index is done if
\* required, and the last sync is null or at least doc_sync_frequency times
\* the runtime multiplier ago, for integer and non-integer multipliers (the
\* multiplier is the real number probe.multiplier / MultiplierUnit).
C20_DuePolicy ==
    probe.evaluated =>
      ( probe.result <=>
          /\ probe.cc_pair.access_type = "SYNC"
          /\ probe.cc_pair.status = "ACTIVE"
          /\ probe.sync_config.present
          /\ probe.sync_config.doc_sync_config.present
          /\ \/ ~probe.sync_config.doc_sync_config.initial_index_should_sync
             \/ probe.cc_pair.last_successful_index_time # None
          /\ \/ probe.cc_pair.last_time_perm_sync = None
             \/ probe.now * MultiplierUnit >=
                   probe.cc_pair.last_time_perm_sync * MultiplierUnit
                     + probe.sync_config.doc_sync_config.doc_sync_frequency
                         * probe.multiplier )

\* C18: a tick that has returned does not hold the beat lock, whichever way
\* it ended (normally, soft time limit, exception, lost lock).
C18_BeatLockReleased ==
    \A b \in Beats : beat[b].pc = "idle" => lock_beat # b

\* C18 witness: both processes have run a tick to its return, one of them
\* after its beat lock had run out, and the lock is free.
C18_Witness ==
    /\ \A b \in Beats : beat[b].pc = "idle" /\ beat[b].ret = "True"
    /\ lock_beat = None

\* C19: the tick never re-raises (it returns True once it held the beat lock
\* and None when it was refused it), and after an exception inside the
\* validator the rate-limit signal is set and the monitor pass can run in the
\* same tick: the tick is at its monitor stage and owns the beat lock.
C19_ValidatorErrorHarmless ==
    [][\A b \in Beats :
          /\ (beat[b].pc # "idle" /\ beat'[b].pc = "idle")
                => beat'[b].ret = "True"
          /\ (beat[b].pc = "idle" /\ beat'[b].pc = "idle" /\ beat'[b] # beat[b])
                => beat'[b].ret = "None"
          /\ (beat[b].pc = "val_except" /\ beat'[b] # beat[b])
                => /\ block_validate'
                   /\ beat'[b].pc = "monitor"
                   /\ lock_beat' = b
      ]_vars

\* C19, amended: the tick never re-raises, and after an exception inside the
\* validator the signal is set and the tick goes on to its monitor stage;
\* there the monitor pass runs only if the beat lock is still owned, and a
\* tick that lost it ends at that reacquire, returning True.
C19_ValidatorErrorContained ==
    [][\A b \in Beats :
          /\ (beat[b].pc # "idle" /\ beat'[b].pc = "idle")
                => beat'[b].ret = "True"
          /\ (beat[b].pc = "idle" /\ beat'[b].pc = "idle" /\ beat'[b] # beat[b])
                => beat'[b].ret = "None"
          /\ (beat[b].pc = "val_except" /\ beat'[b] # beat[b])
                => /\ block_validate'
                   /\ beat'[b].pc = "monitor"
          /\ MonitorPass(b) => lock_beat = b
          /\ (beat[b].pc = "monitor" /\ lock_beat # b /\ beat'[b] # beat[b])
                => /\ beat'[b].pc = "idle"
                   /\ beat'[b].ret = "True"
                   /\ UNCHANGED <<redis_fence, database>>
      ]_vars

\* C19 witness: a tick whose validator raised has set the signal and is at
\* its monitor stage with the beat lock lost to the other process.
C19_Witness ==
    \E b \in Beats :
        /\ beat[b].pc = "monitor"
        /\ block_validate
        /\ lock_beat \notin {None, b}
        /\ fenced(7)

\* attempt t of cc pair c was finalized: fence gone, cc pair marked synced at
\* the attempt's start, its SyncRecord SUCCESS with a document count
Synced(c, t) ==
    /\ ~fenced(c)
    /\ last_time_perm_sync[c] = StartTime(t)
    /\ Len(sync_records[c]) >= t
    /\ sync_records[c][t].status = "SUCCESS"
    /\ sync_records[c][t].num_docs_synced \in 0..MaxDocs

\* C16: without crash or error, a due cc pair without a fence gets a fence
\* and a queued generator; the generator writes generator_complete = N after
\* its N upserts; a later monitor pass marks the cc pair synced, deletes the
\* fence and leaves the SyncRecord SUCCESS with num_docs_synced = N.
C16_HappyPath ==
    /\ \A c \in CCPairs :
          (~fenced(c) /\ last_time_perm_sync[c] = None /\ next_task = 1)
             ~> (fence[c].celery_task_id = 1 /\ task[1].pc # "unused")
    /\ \A c \in CCPairs : \A t \in TaskIds :
          (fenced(c) /\ fence[c].id = t) ~> Synced(c, t)
    /\ [][\A c \in CCPairs :
            /\ (generator_complete'[c] # None
                   /\ generator_complete'[c] # generator_complete[c])
                 => /\ fence[c].celery_task_id \in TaskIds
                    /\ task[fence[c].celery_task_id].pc = "sync"
                    /\ generator_complete'[c]
                          = task[fence[c].celery_task_id].tasks_generated
            /\ (sync_records'[c] # sync_records[c]
                   /\ Len(sync_records'[c]) = Len(sync_records[c]))
                 => sync_records'[c][Len(sync_records[c])] =
                       [status |-> "SUCCESS",
                        num_docs_synced |-> generator_complete[c]]
         ]_vars

\* C16 witness: two syncs in a row ran the happy path to the end.
C16_Witness ==
    \E c \in CCPairs :
        /\ Synced(c, 2)
        /\ sync_records[c][1].status = "SUCCESS"
        /\ task[2].pc = "done"

\* generator t of cc pair c was killed and its fence stayed behind
DeadBehindFence(c, t) ==
    /\ task[t].pc = "dead"
    /\ task[t].cc = c
    /\ fenced(c)
    /\ fence[c].celery_task_id = t

\* C17: when the worker of a cc pair's generator is killed and the fence
\* stays behind, last_time_perm_sync is not written while that fence stands,
\* so the cc pair is still due; a validator pass after the active signal
\* expired resets the fence, and a later tick creates a new fence and queues
\* a new generator.
C17_CrashRecovery ==
    /\ [][\A c \in CCPairs : \A t \in TaskIds :
            DeadBehindFence(c, t)
               => last_time_perm_sync'[c] = last_time_perm_sync[c]]_vars
    /\ \A c \in CCPairs : \A t \in 1..(MaxTasks - 1) :
          (DeadBehindFence(c, t) /\ last_time_perm_sync[c] = None)
            ~> ( /\ fenced(c)
                 /\ fence[c].id = t + 1
                 /\ fence[c].celery_task_id = t + 1
                 /\ task[t + 1].pc # "unused" )

\* the source of cc pair c syncs at indexing time and no indexing run of the
\* cc pair has succeeded
AwaitsFirstIndexing(c) ==
    /\ source_perm_sync_config[c].present
    /\ source_perm_sync_config[c].doc_sync_config.present
    /\ source_perm_sync_config[c].doc_sync_config.initial_index_should_sync
    /\ last_successful_index_time[c] = None

\* C21: a cc pair whose source has initial_index_should_sync and whose
\* last_successful_index_time is still null is in no tick's due set, has no
\* fence, no SyncRecord and no generator task.
C21_NeverDueBeforeIndexing ==
    \A c \in CCPairs :
        AwaitsFirstIndexing(c)
          => /\ \A b \in Beats : c \notin beat[b].due /\ beat[b].cc # c
             /\ ~fenced(c)
             /\ c \notin active_fences
             /\ sync_records[c] = <<>>
             /\ \A t \in TaskIds : task[t].cc # c

\* C21 witness: a whole tick went by and left such a cc pair alone.
C21_Witness ==
    \E c \in CCPairs :
        /\ AwaitsFirstIndexing(c)
        /\ beat[OneBeat].ret = "True"
        /\ block_validate
        /\ next_task = 1

\* try_creating_permissions_sync_task of beat process b returns a payload id
ReturnsPayloadId(b) == beat[b].pc = "tc_fill" /\ beat'[b].pc = "create"

\* C22: when try_creating_permissions_sync_task returns a payload id, the
\* fence of the cc pair holds that id, started = None and the id of the one
\* generator task the call queued, the call has set the active signal, and
\* generator_complete and the taskset are clear.
C22_CreatedFenceComplete ==
    [][/\ \A b \in Beats :
            /\ (beat[b].pc = "tc_fence" /\ beat'[b].pc = "tc_send")
                  => active'[beat[b].cc]
            /\ ReturnsPayloadId(b)
                  => /\ fence'[beat[b].cc]
                          = Payload(beat[b].tid, None, beat[b].tid)
                     /\ beat[b].cc \in active_fences'
                     /\ task'[beat[b].tid].cc = beat[b].cc
                     /\ task'[beat[b].tid].pc # "unused"
                     /\ generator_complete'[beat[b].cc] = None
                     /\ taskset'[beat[b].cc] = {}
       /\ \A t \in TaskIds :
            (task[t].pc = "unused" /\ task'[t].pc # "unused")
               => /\ task'[t].pc = "queued"
                  /\ \A u \in TaskIds \ {t} : task'[u] = task[u]
                  /\ \E b \in Beats : /\ beat[b].pc = "tc_send"
                                       /\ beat[b].tid = t
                                       /\ beat'[b].pc = "tc_fill"
      ]_vars

\* C23: a generator task that finds permissions_sync_lock held returns and
\* changes nothing: not the fence payload, generator_complete, the taskset,
\* the active signal, the database, the holder's lock or any other task.
C23_ReplayIsNoOp ==
    [][\A t \in TaskIds :
          (task[t].pc = "wait" /\ task'[t].pc = "done")
             => /\ sync_lock[task[t].cc] \notin {None, t}
                /\ UNCHANGED <<redis_fence, database, redis_locks>>
                /\ \A u \in TaskIds \ {t} : task'[u] = task[u]
      ]_vars

\* C23 witness: the second task returned on the held lock while the first
\* one is in its upsert loop.
C23_Witness ==
    \E c \in CCPairs :
        /\ task[2].pc = "done" /\ task[2].cc = c
        /\ task[1].pc = "sync" /\ task[1].cc = c
        /\ sync_lock[c] = 1
        /\ fence[c].celery_task_id = 2
        /\ generator_complete[c] = None
        /\ last_time_perm_sync[c] = None

\* the generator task has ended by a return or by an exception
Ended(t) == task[t].pc \in {"done", "returned", "raised", "failed"}

\* C24: once a generator task has ended (completion, censoring-only return,
\* missing-config return, any exception), permissions_sync_lock of its cc
\* pair is not held by it; the step that ends a task holding the lock leaves
\* the lock free.
C24_SyncLockReleased ==
    /\ [](\A t \in TaskIds : Ended(t) => sync_lock[task[t].cc] # t)
    /\ [][\A t \in TaskIds :
            (~Ended(t) /\ Ended(t)' /\ sync_lock[task[t].cc] = t)
               => sync_lock'[task[t].cc] = None]_vars

\* C24 witness: one task returned on a censoring-only source, the other on a
\* source without sync config, and the lock is free.
C24_Witness ==
    \E c \in CCPairs :
        /\ task[1].pc = "returned" /\ task[1].cc = c
        /\ task[2].pc = "returned" /\ task[2].cc = c
        /\ sync_lock[c] = None
        /\ fenced(c)

\* C25: should_stop() is true iff the stop fence of the cc pair is set; a
\* run that doc_sync_func aborts on it ends in the except block, which clears
\* generator_complete and the taskset, deletes the fence and re-raises; the
\* validator and the monitor then find no fence of the cc pair, and a later
\* tick creates a fresh fence for the cc pair, which is still due.
C25_Cancellation ==
    /\ [](\A c \in CCPairs : should_stop(c) <=> stop_fenced[c])
    /\ [][\A t \in TaskIds :
            /\ (task[t].pc # "stopping" /\ task'[t].pc = "stopping")
                  => stop_fenced[task[t].cc]
            /\ (task[t].pc = "stopping" /\ task'[t].pc # "stopping")
                  => /\ task'[t].pc = "raised"
                     /\ ~fenced(task[t].cc)'
                     /\ task[t].cc \notin active_fences'
                     /\ generator_complete'[task[t].cc] = None
                     /\ taskset'[task[t].cc] = {}
                     /\ sync_lock'[task[t].cc] # t
                     /\ UNCHANGED database
                     /\ ValidatorResets(active_fences', {}, {}) = {}
                     /\ ~Blocked(task[t].cc)'
         ]_vars
    /\ \A c \in CCPairs :
          (~fenced(c) /\ last_time_perm_sync[c] = None /\ next_task <= MaxTasks)
             ~> fenced(c)

\* C25 witness: the first run was stopped and a fresh fence stands.
C25_Witness ==
    \E c \in CCPairs :
        /\ task[1].pc = "raised" /\ task[1].cc = c
        /\ fence[c].id = 2
        /\ fence[c].celery_task_id = 2
        /\ last_time_perm_sync[c] = None

\* C26: every progress() call renews the active signal; it re-extends the
\* sync lock exactly when CELERY_GENERIC_BEAT_LOCK_TIMEOUT / 4 or more has
\* gone by since the last reacquisition, and then restarts that interval; if
\* the extension fails the call raises.
C26_HeartbeatProgress ==
    [][heartbeat'.calls = heartbeat.calls + 1
         => LET elapsed == heartbeat.now - heartbeat.last_lock_monotonic
                due == 4 * elapsed >= CELERY_GENERIC_BEAT_LOCK_TIMEOUT
            IN /\ heartbeat'.active
               /\ heartbeat'.reacquired <=> (due /\ heartbeat.owned)
               /\ heartbeat'.raised <=> (due /\ ~heartbeat.owned)
               /\ heartbeat'.last_lock_monotonic =
                     IF heartbeat'.reacquired THEN heartbeat.now
                     ELSE heartbeat.last_lock_monotonic
               /\ heartbeat'.owned = heartbeat.owned
               /\ heartbeat'.now = heartbeat.now
      ]_vars

\* C26 witness: a call re-extended the lock, and a later call, the lock
\* lost meanwhile, raised.
C26_Witness ==
    /\ heartbeat.raised
    /\ heartbeat.active
    /\ heartbeat.last_lock_monotonic > 0
    /\ heartbeat.calls = MaxCalls

\* the monitor finalizes the fence of cc pair c in this step
FinalizedNow(c) ==
    \/ last_time_perm_sync'[c] # last_time_perm_sync[c]
    \/ /\ sync_records'[c] # sync_records[c]
       /\ Len(sync_records'[c]) = Len(sync_records[c])

\* C27: on a source with censoring_config and no doc_sync_config the
\* generator returns without an upsert, without writing generator_complete
\* and without deleting the fence, and the monitor never finalizes the fence
\* of a generator that returned so.
C27_CensoringOnlyNeverFinalized ==
    [][/\ \A t \in TaskIds :
            ( /\ task[t].pc = "locked"
              /\ task'[t].pc = "returned"
              /\ source_perm_sync_config[task[t].cc] = CensoringOnly )
            => /\ task[t].tasks_generated = 0
               /\ fenced(task[t].cc)' = fenced(task[t].cc)
               /\ UNCHANGED <<redis_fence, database>>
       /\ \A c \in CCPairs :
            ( /\ source_perm_sync_config[c] = CensoringOnly
              /\ \E t \in TaskIds : /\ task[t].pc = "returned"
                                     /\ task[t].cc = c
                                     /\ fence[c].celery_task_id = t )
            => ~FinalizedNow(c)
      ]_vars

\* the generator finds neither a doc sync config nor a censoring config
NoUsableConfig(c) ==
    \/ ~source_perm_sync_config[c].present
    \/ /\ ~source_perm_sync_config[c].doc_sync_config.present
       /\ ~source_perm_sync_config[c].censoring_config

\* C28: when neither a doc sync config nor a censoring config is there for
\* the source (no sync config at all included), the generator that holds the
\* lock ends by raising, and the fence is deleted.
C28_NoConfigIsFatal ==
    [][\A t \in TaskIds :
          ( /\ task[t].pc = "locked"
            /\ NoUsableConfig(task[t].cc)
            /\ task'[t].pc \notin {"locked", "dead"} )
          => /\ task'[t].pc = "raised"
             /\ ~fenced(task[t].cc)'
      ]_vars

\* C29: the exceptional exit of the generator writes no SyncRecord: the
\* rows are as they were, an IN_PROGRESS row stays IN_PROGRESS, and no row
\* is ever FAILURE.
C29_NoFailureStatus ==
    /\ [](\A c \in CCPairs : \A i \in 1..Len(sync_records[c]) :
             sync_records[c][i].status \in {"IN_PROGRESS", "SUCCESS"})
    /\ [][\A t \in TaskIds :
            (task[t].pc # "raised" /\ task'[t].pc = "raised")
               => UNCHANGED database]_vars

\* C29 witness: the generator of the only attempt raised out of its upsert
\* loop, the fence is gone and the attempt's row is IN_PROGRESS.
C29_Witness ==
    \E c \in CCPairs :
        /\ task[1].pc = "raised" /\ task[1].cc = c
        /\ task[2].pc = "unused"
        /\ ~fenced(c)
        /\ Len(sync_records[c]) = 1
        /\ sync_records[c][1].status = "IN_PROGRESS"

\* the validator is entered by tick b in this step
ValidatorCalled(b) ==
    /\ beat[b].pc = "create"
    /\ beat[b].due = {}
    /\ ~block_validate
    /\ beat'[b] # beat[b]
    /\ beat'[b].pc \in {"monitor", "val_fence"}

\* C30: validate_permission_sync_fences returns without resetting a fence
\* or renewing an active signal iff the upsert lane is longer than 1024: at
\* 1025 it does nothing, at 1024 (and below) it goes on to its pass, which
\* resets or renews every fence of active_fences that calls for it.
C30_ValidatorBudgetGuard ==
    [][\A b \in Beats :
         /\ ValidatorCalled(b) =>
               /\ beat'[b].queue_len \in QueueLens
               /\ (beat'[b].pc = "monitor")
                     <=> (beat'[b].queue_len > 1024)
               /\ (beat'[b].pc = "val_fence")
                     <=> (beat'[b].queue_len <= 1024)
               /\ UNCHANGED redis_fence
         /\ (beat[b].pc = "val_fence" /\ beat'[b].pc = "monitor") =>
               /\ beat[b].queue_len <= 1024
               /\ \A c \in active_fences :
                    LET verdict ==
                          validate_permission_sync_fence(c, beat[b].queued,
                                                         beat[b].snap)
                    IN /\ verdict = "reset" => ~fenced(c)' /\ ~active'[c]
                       /\ verdict = "renew" => fenced(c)' /\ active'[c]
                       /\ verdict \notin {"reset", "renew"} =>
                             /\ fence'[c] = fence[c]
                             /\ active'[c] = active[c]
      ]_vars

\* C30 witness: the validator saw 1025 queued upserts and returned, leaving
\* alone a fence of active_fences that a pass would have reset.
C30_Witness ==
    \E b \in Beats : \E c \in active_fences :
        /\ beat[b].pc = "monitor"
        /\ beat[b].queue_len = PERMISSION_SYNC_VALIDATION_MAX_QUEUE_LEN + 1
        /\ validate_permission_sync_fence(c, upsert_lane, ReservedTasks)
              = "reset"

----------------------------------------------------------------------------
\* The fence store as earlier runs and earlier releases left it: one tick
\* after the other runs its validator and its monitor over keys it did not
\* write.  Next to the cc pair under sync the store holds the keys of a cc
\* pair that get_all_auto_sync_cc_pairs no longer returns.  The generator
\* lane is drawn, not run.

StoredPairs == CCPairs \cup {8}
Orphan == CHOOSE c \in StoredPairs : c \notin CCPairs

\* subtask ids of a release that fanned the upserts out
Subtasks == {11, 12}

\* the generator task of the stored fence of cc pair c; celery knows nothing
\* of the orphan's
StoredTask(c) == IF c \in CCPairs THEN 1 ELSE 0

StoredPayloads(c) ==
    IF c \in CCPairs
    THEN {NoFence, Invalid,
          Payload(StoredTask(c), None, None),
          Payload(StoredTask(c), None, StoredTask(c)),
          Payload(StoredTask(c), StartTime(StoredTask(c)), StoredTask(c))}
    ELSE {NoFence, Invalid,
          Payload(StoredTask(c), StartTime(1), StoredTask(c))}

StoredTasksets(c) ==
    IF c \in CCPairs THEN {{}, {11}, Subtasks} ELSE {{}}

InitStore ==
    /\ fence \in {f \in [StoredPairs -> UNION {StoredPayloads(c) : c \in StoredPairs}] :
                     \A c \in StoredPairs : f[c] \in StoredPayloads(c)}
    /\ active \in [StoredPairs -> BOOLEAN]
    /\ taskset \in {ts \in [StoredPairs -> SUBSET Subtasks] :
                       \A c \in StoredPairs : ts[c] \in StoredTasksets(c)}
    /\ generator_complete \in [StoredPairs -> {None, 0}]
    /\ active_fences = {c \in StoredPairs : fenced(c)}
    /\ upsert_lane \in {{}, {11}}
    /\ upserter = NoUpsert
    /\ limiter = SingleTenant
    /\ block_validate = FALSE
    /\ delete_fenced = [c \in StoredPairs |-> FALSE]
    /\ prune_fenced = [c \in StoredPairs |-> FALSE]
    /\ stop_fenced = [c \in StoredPairs |-> FALSE]
    /\ lock_beat = None
    /\ fn_lock = None
    /\ sync_lock = [c \in StoredPairs |-> None]
    /\ task \in {tk \in [TaskIds -> {[NewTask EXCEPT !.pc = pc, !.cc = cc] :
                                         pc \in {"unused", "queued", "reserved", "dead"},
                                         cc \in CCPairs \cup {None}}] :
                    /\ tk[1].pc # "unused" /\ tk[1].cc \in CCPairs
                    /\ \A t \in TaskIds \ {1} : tk[t] = NewTask}
    /\ next_task = 2
    /\ last_time_perm_sync = [c \in StoredPairs |-> None]
    /\ sync_records =
          [c \in StoredPairs |->
              IF fenced(c)
              THEN <<[status |-> "IN_PROGRESS", num_docs_synced |-> None]>>
              ELSE <<>>]
    /\ beat = [b \in Beats |-> IdleBeat]
    /\ source_perm_sync_config = [c \in StoredPairs |-> SyncConfig]
    /\ last_successful_index_time = [c \in StoredPairs |-> None]
    /\ probe = NoProbe
    /\ heartbeat = NoHeartbeat

NextStore ==
    \/ TickStep(OneBeat)
    \/ \E c \in StoredPairs : ActiveExpire(c)
    \/ BlockValidateExpire

SpecStore == InitStore /\ [][NextStore]_vars

\* the Redis keys and the database rows of cc pair c are left as they are
KeysUnchanged(c) ==
    /\ fence'[c] = fence[c]
    /\ active'[c] = active[c]
    /\ taskset'[c] = taskset[c]
    /\ generator_complete'[c] = generator_complete[c]
RowsUnchanged(c) ==
    /\ last_time_perm_sync'[c] = last_time_perm_sync[c]
    /\ sync_records'[c] = sync_records[c]

\* reset() has run on the keys of cc pair c
KeysReset(c) ==
    /\ ~fenced(c)'
    /\ ~active'[c]
    /\ taskset'[c] = {}
    /\ generator_complete'[c] = None
    /\ c \notin active_fences'

\* the fence of the orphan was standing at the start and a validator pass
\* has reset it: its row is there, and no monitor finalized it
OrphanReset ==
    /\ ~fenced(Orphan)
    /\ Len(sync_records[Orphan]) = 1
    /\ sync_records[Orphan][1].status = "IN_PROGRESS"

\* C31: a validator pass resets every fence whose payload does not parse
\* (payload, active signal, taskset and generator_complete removed) and
\* goes on: in the same pass every other fence of active_fences gets what
\* its own state calls for, and the pass ends without raising.
C31_UnparsedFenceReset ==
    [][\A b \in Beats :
          ( /\ ValidatorPass(b)
            /\ \E c \in active_fences : fenced(c) /\ ~Parses(fence[c]) )
          => /\ beat'[b].pc = "monitor"
             /\ block_validate'
             /\ \A c \in active_fences :
                   LET verdict ==
                         validate_permission_sync_fence(c, beat[b].queued,
                                                        beat[b].snap)
                   IN /\ (fenced(c) /\ ~Parses(fence[c]))
                            => KeysReset(c) /\ RowsUnchanged(c)
                      /\ (fenced(c) /\ Parses(fence[c]))
                            => /\ verdict = "reset" => KeysReset(c)
                               /\ verdict = "renew" =>
                                     fence'[c] = fence[c] /\ active'[c]
                               /\ verdict \in {"skip", "live"} =>
                                     KeysUnchanged(c)
      ]_vars

\* C31 witness: one pass has reset the fence of the cc pair under sync,
\* which its queued generator task would have kept alive had the payload
\* parsed, and the fence of the orphan next to it.
C31_Witness ==
    \E b \in Beats : \E c \in CCPairs :
        /\ beat[b].pc = "monitor"
        /\ block_validate
        /\ task[1].pc = "queued" /\ task[1].cc = c
        /\ next_task = 2
        /\ ~fenced(c)
        /\ Len(sync_records[c]) = 1
        /\ sync_records[c][1].status = "IN_PROGRESS"
        /\ OrphanReset

\* C32, as claimed: a monitor pass over a fence with generator_complete set
\* whose payload does not parse resets the fence.
C32_MonitorResetsUnparsed ==
    [][\A b \in Beats : \A c \in StoredPairs :
          ( /\ MonitorPass(b)
            /\ c \in active_fences
            /\ fenced(c)
            /\ generator_complete[c] # None
            /\ ~Parses(fence[c]) )
          => ~fenced(c)'
      ]_vars

\* C32, amended: a monitor pass over a fence whose payload does not parse
\* returns for that fence: the fence, its signals and the rows are left as
\* they are, the key stays in active_fences, and the pass ends normally.
C32_MonitorSkipsUnparsed ==
    [][\A b \in Beats : \A c \in StoredPairs :
          ( /\ MonitorPass(b)
            /\ c \in active_fences
            /\ fenced(c)
            /\ ~Parses(fence[c]) )
          => /\ KeysUnchanged(c)
             /\ RowsUnchanged(c)
             /\ c \in active_fences'
             /\ beat'[b].pc = "finish"
      ]_vars

\* C32 witness: a monitor pass has just gone over a fence with
\* generator_complete set whose payload does not parse; the fence stands.
C32_Witness ==
    \E b \in Beats : \E c \in StoredPairs :
        /\ beat[b].pc = "finish"
        /\ c \in active_fences
        /\ fence[c] = Invalid
        /\ generator_complete[c] # None
        /\ get_remaining(c) = 0

\* C33: a monitor pass changes nothing of a cc pair whose fence is absent,
\* whose generator_complete is not set or whose taskset is not empty: no
\* timestamp, no SyncRecord, no key of the fence.
C33_MonitorFrame ==
    [][\A b \in Beats : \A c \in StoredPairs :
          ( /\ MonitorPass(b)
            /\ \/ ~fenced(c)
               \/ generator_complete[c] = None
               \/ get_remaining(c) > 0 )
          => KeysUnchanged(c) /\ RowsUnchanged(c)
      ]_vars

\* C33 witness: a monitor pass has just gone over a fence that parses and
\* has generator_complete set while members of its taskset are outstanding.
C33_Witness ==
    \E b \in Beats : \E c \in StoredPairs :
        /\ beat[b].pc = "finish"
        /\ c \in active_fences
        /\ fenced(c) /\ Parses(fence[c])
        /\ generator_complete[c] # None
        /\ get_remaining(c) > 0
        /\ sync_records[c][1].status = "IN_PROGRESS"
        /\ last_time_perm_sync[c] = None

\* C36: a validator pass leaves every fence whose payload parses and has
\* celery_task_id = None as it is: it is not reset and its active signal is
\* not renewed.
C36_UnfilledFenceSkipped ==
    [][\A b \in Beats : \A c \in StoredPairs :
          ( /\ ValidatorPass(b)
            /\ c \in active_fences
            /\ fenced(c)
            /\ Parses(fence[c])
            /\ fence[c].celery_task_id = None )
          => /\ KeysUnchanged(c)
             /\ RowsUnchanged(c)
             /\ c \in active_fences'
      ]_vars

\* C36 witness: a pass that reset the orphan has gone over a fence without
\* celery_task_id whose active signal is gone, and the fence stands.
C36_Witness ==
    \E b \in Beats : \E c \in CCPairs :
        /\ beat[b].pc = "monitor"
        /\ block_validate
        /\ OrphanReset
        /\ fenced(c) /\ Parses(fence[c])
        /\ fence[c].celery_task_id = None
        /\ ~active[c]
        /\ c \in active_fences

\* a sign of life of the fence of cc pair c, as a pass with the snapshots
\* queued and reserved sees it
PositiveObservation(c, queued, reserved) ==
    \/ \E t \in TaskIds : t = fence[c].celery_task_id /\ task[t].pc = "queued"
    \/ fence[c].celery_task_id \in reserved
    \/ /\ taskset[c] # {}
       /\ \A m \in taskset[c] : m \in queued \/ m \in reserved

\* C37: a validator pass that finds the generator task of a fence in the
\* generator lane's queue or among the reserved tasks, or finds the taskset
\* non-empty with every member queued or reserved, renews the active signal
\* and does not reset the fence.
C37_PositiveObservationRenews ==
    [][\A b \in Beats : \A c \in StoredPairs :
          ( /\ ValidatorPass(b)
            /\ c \in active_fences
            /\ fenced(c)
            /\ Parses(fence[c])
            /\ fence[c].celery_task_id # None
            /\ PositiveObservation(c, beat[b].queued, beat[b].snap) )
          => /\ active'[c]
             /\ fence'[c] = fence[c]
             /\ taskset'[c] = taskset[c]
             /\ generator_complete'[c] = generator_complete[c]
             /\ c \in active_fences'
      ]_vars

\* C37 witness: a pass that reset the orphan has gone over a fence whose
\* generator task is dead and whose one subtask is queued: the fence stands
\* and its active signal is set.
C37_Witness ==
    \E b \in Beats : \E c \in CCPairs :
        /\ beat[b].pc = "monitor"
        /\ block_validate
        /\ OrphanReset
        /\ fenced(c) /\ Parses(fence[c])
        /\ fence[c].celery_task_id = 1
        /\ task[1].pc = "dead"
        /\ taskset[c] = {11}
        /\ upsert_lane = {11}
        /\ active[c]

\* cc pair c is due at instant now under multiplier m (in 1/MultiplierUnit)
\* once its last_time_perm_sync is started
DueAfter(c, started, m, now) ==
    _is_external_doc_permissions_sync_due(
        [CCPair(c) EXCEPT !.last_time_perm_sync = started],
        source_perm_sync_config[c], m, now)

\* C39: whenever a monitor pass finalizes a fence, the payload's started is
\* not None: the cc pair is marked synced with a timestamp, and it is not
\* due again before started + doc_sync_frequency * multiplier.
C39_FinalizedHasStarted ==
    [][\A b \in Beats : \A c \in CCPairs :
          (MonitorPass(b) /\ c \in active_fences /\ Finalizes(c))
             => /\ fence[c].started # None
                /\ last_time_perm_sync'[c] = fence[c].started
                /\ \A now \in Times :
                   \A m \in get_doc_permission_sync_multiplier :
                      ( /\ source_perm_sync_config[c].doc_sync_config.present
                        /\ now * MultiplierUnit
                             < fence[c].started * MultiplierUnit
                               + source_perm_sync_config[c]
                                    .doc_sync_config.doc_sync_frequency * m )
                      => ~DueAfter(c, fence[c].started, m, now)
      ]_vars

----------------------------------------------------------------------------
\* The three locks running out together: the beat lock, the function lock and
\* the generator's lock all expire under slow holders, so that a second tick
\* and a second generator take them over while the first are still running.
\* The generator runs without exceptions of its own; the rate-limit signal
\* and the active signal outlast the run.
OwnerGen(t) ==
    \/ GenPrefetch(t)
    \/ GenStart(t)
    \/ GenFenceMissing(t)
    \/ GenAcquire(t)
    \/ GenLockHeld(t)
    \/ GenLoad(t)
    \/ GenProgressLockLost(t)
    \/ GenComplete(t)

NextOwners ==
    \/ \E b \in Beats : BeatStep(b)
    \/ \E b \in Beats : TryLockTimeout(b)
    \/ \E b \in Beats : BeatLockLost(b)
    \/ \E b \in Beats : BeatValidateLockLost(b)
    \/ \E t \in TaskIds : OwnerGen(t)
    \/ BeatLockExpire
    \/ FnLockExpire
    \/ \E c \in CCPairs : SyncLockExpire(c)

SpecOwners == Init /\ [][NextOwners]_vars

\* the lock is held by a process other than me
HeldByOther(l, me) == l # None /\ l # me

\* C40: no process releases a lock it no longer owns.  A step of a beat tick
\* leaves the beat lock and the function lock as they are when another tick
\* holds them, and a step of a generator leaves the lock of its cc pair as it
\* is when another generator holds it: the finally block of a holder whose
\* lock expired and was taken over does not release the new holder's lock.
C40_ReleaseOnlyOwnLock ==
    [][ /\ \A b \in Beats :
            beat'[b] # beat[b]
                => /\ (HeldByOther(lock_beat, b) => lock_beat' = lock_beat)
                   /\ (HeldByOther(fn_lock, b) => fn_lock' = fn_lock)
        /\ \A t \in TaskIds :
            (task'[t] # task[t] /\ task[t].cc \in CCPairs)
                => (HeldByOther(sync_lock[task[t].cc], t)
                        => sync_lock'[task[t].cc] = sync_lock[task[t].cc]) ]_vars

\* a generator whose lock was lost has ended through its cleanup, and the
\* other generator of the cc pair holds the lock and is still running
C40_Witness ==
    \E t \in TaskIds : \E u \in TaskIds \ {t} :
        /\ task[t].pc = "raised"
        /\ task[u].pc \in {"locked", "sync"}
        /\ task[u].cc = task[t].cc
        /\ sync_lock[task[u].cc] = u
        /\ \E b \in Beats : HeldByOther(lock_beat, b) /\ beat[b].ret = "True"

----------------------------------------------------------------------------
\* The rate limit of the validator with its clock: the deployment is single-
\* or multi-tenant with any beat multiplier, the signal's TTL runs down as
\* time passes and the signal expires when it has run out; the beat lock and
\* the function lock expire under slow ticks, so that ticks overlap.
InitRate ==
    /\ InitKeys
    /\ InitCatalog
    /\ probe = NoProbe
    /\ heartbeat = NoHeartbeat
    /\ limiter \in [multi_tenant : BOOLEAN, beat_multiplier : Multipliers,
                    ttl : {0}]

\* SignalClockStep seconds pass; the signal is gone when its TTL has run out
SignalClock ==
    /\ block_validate
    /\ LET left == IF limiter.ttl > SignalClockStep
                   THEN limiter.ttl - SignalClockStep ELSE 0
       IN /\ limiter' = [limiter EXCEPT !.ttl = left]
          /\ block_validate' = (left > 0)
    /\ UNCHANGED <<probe, heartbeat, catalog, upsert_lane, upserter, redis_fence,
                   lifecycle, redis_locks, task, next_task, database, beat>>

NextRate ==
    \/ \E b \in Beats : BeatStep(b)
    \/ \E b \in Beats : TryLockTimeout(b)
    \/ \E b \in Beats : BeatLockLost(b)
    \/ \E b \in Beats : BeatValidateLockLost(b)
    \/ BeatLockExpire
    \/ FnLockExpire
    \/ SignalClock

SpecRate == InitRate /\ [][NextRate]_vars

\* tick b enters validate_permission_sync_fences in this step
ValidatorStarts(b) ==
    /\ beat[b].pc = "create"
    /\ \/ beat'[b].pc = "val_fence"
       \/ beat'[b].pc = "monitor" /\ beat'[b].queue_len # None

\* tick b leaves the validator stage in this step, the validator having run
ValidatorReturns(b) ==
    /\ beat'[b].pc = "monitor"
    /\ \/ beat[b].pc \in {"val_fence", "val_except"}
       \/ beat[b].pc = "create" /\ beat'[b].queue_len # None

\* the signal's lifetime in seconds is 300 x multiplier, in whole seconds, in
\* a multi-tenant deployment and 300 otherwise
RateLimitLifetime(ttl) ==
    IF limiter.multi_tenant
    THEN /\ ttl * MultiplierUnit <= 300 * limiter.beat_multiplier
         /\ 300 * limiter.beat_multiplier < (ttl + 1) * MultiplierUnit
    ELSE ttl = 300

\* C38: within a tick the validator runs only if the rate-limit signal is
\* absent, and after the run the signal is set with an expiration of 300 s
\* times the beat multiplier in multi-tenant mode and of 300 s otherwise; the
\* signal stays until that lifetime has run out, so no validator pass starts
\* within the lifetime of a signal.
C38_ValidatorRateLimit ==
    [][ /\ \A b \in Beats :
            /\ ValidatorStarts(b) => ~block_validate /\ limiter.ttl = 0
            /\ ValidatorReturns(b)
                  => block_validate' /\ RateLimitLifetime(limiter'.ttl)
        /\ (block_validate /\ ~block_validate')
              => limiter.ttl <= SignalClockStep /\ limiter'.ttl = 0
        /\ (block_validate /\ block_validate')
              => limiter'.ttl <= limiter.ttl \/ RateLimitLifetime(limiter'.ttl)
      ]_vars

\* a multi-tenant deployment with a multiplier that is no whole number: after
\* a pass the signal has been set, part of its lifetime has passed, and a tick
\* finds it and goes on to the monitor without validating
C38_Witness ==
    /\ limiter.multi_tenant
    /\ limiter.beat_multiplier % MultiplierUnit # 0
    /\ block_validate
    /\ limiter.ttl > 0
    /\ limiter.ttl < (300 * limiter.beat_multiplier) \div MultiplierUnit
    /\ \E b \in Beats : beat[b].pc = "monitor" /\ lock_beat = b

----------------------------------------------------------------------------
\* The upserter under the generator's loop.  A generator is in its loop, the
\* tables hold any rows, doc_sync_func yields any DocExternalAccess, and a run
\* of the body of document_update_permissions succeeds or raises a transient
\* or a permanent error.  A failed run leaves the tables as they were (one
\* transaction), and no per-user error occurs in the batch insert.

\* seconds one run of the body takes
AttemptSeconds == {100, 300}

RECURSIVE Pow2(_)
Pow2(n) == IF n = 0 THEN 1 ELSE 2 * Pow2(n - 1)

Min(a, b) == IF a < b THEN a ELSE b

\* wait_random_exponential(multiplier=1, max=60): a random wait between 0 and
\* min(2^(attempt_number - 1), max); both ends are modelled
wait_random_exponential(attempt_number) ==
    {0, Min(Pow2(attempt_number - 1), DOCUMENT_PERMISSIONS_UPDATE_MAX_WAIT)}

\* stop_after_delay(600): seconds_since_start >= max_delay
stop_after_delay(seconds_since_start) ==
    seconds_since_start >= DOCUMENT_PERMISSIONS_UPDATE_STOP_AFTER

\* generator 1 is in its loop over the DocExternalAccess items
InitUpserter ==
    /\ fence = [c \in CCPairs |-> Payload(1, StartTime(1), 1)]
    /\ active = [c \in CCPairs |-> TRUE]
    /\ taskset = [c \in CCPairs |-> {}]
    /\ generator_complete = [c \in CCPairs |-> None]
    /\ active_fences = CCPairs
    /\ block_validate = FALSE
    /\ delete_fenced = [c \in CCPairs |-> FALSE]
    /\ prune_fenced = [c \in CCPairs |-> FALSE]
    /\ stop_fenced = [c \in CCPairs |-> FALSE]
    /\ lock_beat = None
    /\ fn_lock = None
    /\ sync_lock = [c \in CCPairs |-> 1]
    /\ \E c \in CCPairs :
          task = [t \in TaskIds |->
                    IF t = 1 THEN [NewTask EXCEPT !.pc = "sync", !.cc = c]
                    ELSE NewTask]
    /\ next_task = 2
    /\ last_time_perm_sync = [c \in CCPairs |-> None]
    /\ sync_records =
          [c \in CCPairs |->
              <<[status |-> "IN_PROGRESS", num_docs_synced |-> None]>>]
    /\ beat = [b \in Beats |-> IdleBeat]
    /\ upsert_lane = {}
    /\ limiter = SingleTenant
    /\ InitCatalog
    /\ probe = NoProbe
    /\ heartbeat = NoHeartbeat
    /\ \E db \in Tables :
          /\ \A d \in db.document_by_connector_credential_pair :
                db.document[d].present
          /\ upserter = [NoUpsert EXCEPT !.db = db]

\* what a step of the upserter leaves alone besides the generator
UpsertFrame ==
    UNCHANGED <<probe, heartbeat, catalog, upsert_lane, limiter, block_validate,
                lifecycle, lock_beat, fn_lock, next_task, database, beat>>

\* doc_sync_func yields permissions; update_db calls document_update_permissions
UpsertCall(t, permissions) ==
    /\ task[t].pc = "sync"
    /\ task[t].tasks_generated < MaxDocs
    /\ upserter.pc = "idle"
    /\ upserter' = [upserter EXCEPT !.pc = "attempt", !.task = t,
                                     !.permissions = permissions,
                                     !.attempt_number = 1, !.failed = 0,
                                     !.elapsed = 0, !.sleep = 0,
                                     !.error = "-", !.outcome = "-"]
    /\ UNCHANGED <<redis_fence, sync_lock, task>>
    /\ UpsertFrame

\* the body runs through: return True, and the loop counts the item
UpsertReturns(seconds) ==
    /\ upserter.pc = "attempt"
    /\ upserter' =
          [upserter EXCEPT
             !.db = document_update_permissions(upserter.db,
                                                upserter.permissions),
             !.pc = "idle",
             !.elapsed = upserter.elapsed + upserter.sleep + seconds,
             !.sleep = 0,
             !.outcome = "True",
             !.last = upserter.permissions,
             !.created_new_doc =
                 IF upserter.permissions = upserter.last
                 THEN upserter.created_new_doc
                 ELSE ~upserter.db.document[upserter.permissions.doc_id].present,
             !.repeated = (upserter.permissions = upserter.last)]
    /\ task' = [task EXCEPT ![upserter.task].tasks_generated = @ + 1]
    /\ UNCHANGED <<redis_fence, sync_lock>>
    /\ UpsertFrame

\* faulty variant: a permanent error is waited out and the body run again
UpsertRaisesRetried(e, seconds) ==
    /\ upserter.pc = "attempt"
    /\ ~is_retryable_sqlalchemy_error(e)
    /\ \E wait \in wait_random_exponential(upserter.attempt_number) :
          upserter' =
             [upserter EXCEPT
                !.attempt_number = @ + 1, !.failed = @ + 1,
                !.elapsed = upserter.elapsed + upserter.sleep + seconds,
                !.sleep = wait, !.error = e]
    /\ UNCHANGED <<redis_fence, sync_lock, task>>
    /\ UpsertFrame

\* the body raises an error that is_retryable_sqlalchemy_error rejects: it is
\* raised to the generator, whose except block cleans up
UpsertRaises(e, seconds) ==
    /\ upserter.pc = "attempt"
    /\ ~is_retryable_sqlalchemy_error(e)
    /\ upserter' =
          [upserter EXCEPT
             !.pc = "idle", !.failed = @ + 1,
             !.elapsed = upserter.elapsed + upserter.sleep + seconds,
             !.sleep = 0, !.error = e, !.outcome = e]
    /\ GenCleanup(upserter.task)
    /\ UNCHANGED active
    /\ UpsertFrame

\* the body raises a retryable error before the delay is up: the call waits
\* and runs the body again
UpsertRetries(e, seconds) ==
    /\ upserter.pc = "attempt"
    /\ is_retryable_sqlalchemy_error(e)
    /\ ~stop_after_delay(upserter.elapsed + upserter.sleep + seconds)
    /\ \E wait \in wait_random_exponential(upserter.attempt_number) :
          upserter' =
             [upserter EXCEPT
                !.attempt_number = @ + 1, !.failed = @ + 1,
                !.elapsed = upserter.elapsed + upserter.sleep + seconds,
                !.sleep = wait, !.error = e]
    /\ UNCHANGED <<redis_fence, sync_lock, task>>
    /\ UpsertFrame

\* the body raises a retryable error and the delay is up: RetryError is raised
\* to the generator, whose except block cleans up
UpsertGivesUp(e, seconds) ==
    /\ upserter.pc = "attempt"
    /\ is_retryable_sqlalchemy_error(e)
    /\ stop_after_delay(upserter.elapsed + upserter.sleep + seconds)
    /\ upserter' =
          [upserter EXCEPT
             !.pc = "idle", !.failed = @ + 1,
             !.elapsed = upserter.elapsed + upserter.sleep + seconds,
             !.sleep = 0, !.error = e, !.outcome = "RetryError"]
    /\ GenCleanup(upserter.task)
    /\ UNCHANGED active
    /\ UpsertFrame

\* the sequence is exhausted between two items
UpsertLoopEnds(t) ==
    /\ upserter.pc = "idle"
    /\ GenComplete(t)

NextUpserter ==
    \/ \E t \in TaskIds : \E permissions \in DocExternalAccesses :
          UpsertCall(t, permissions)
    \/ \E seconds \in AttemptSeconds : UpsertReturns(seconds)
    \/ \E e \in Errors : \E seconds \in AttemptSeconds :
          UpsertRaises(e, seconds)
    \/ \E e \in Errors : \E seconds \in AttemptSeconds :
          UpsertRetries(e, seconds)
    \/ \E e \in Errors : \E seconds \in AttemptSeconds :
          UpsertGivesUp(e, seconds)
    \/ \E t \in TaskIds : UpsertLoopEnds(t)

SpecUpserter == InitUpserter /\ [][NextUpserter]_vars

\* the call under way ends in this step with return True
UpsertReturned ==
    /\ upserter.pc = "attempt"
    /\ upserter'.pc = "idle"
    /\ upserter'.outcome = "True"

\* C34: upserting the same DocExternalAccess twice leaves the tables as
\* upserting it once does: the ACL row is the external access given, its
\* users exist, and the document is tied to the cc pair only by the call that
\* created its row; the second call changes nothing.
C34_UpserterIdempotent ==
    /\ [](\A permissions \in DocExternalAccesses :
            LET once == document_update_permissions(upserter.db, permissions)
            IN  document_update_permissions(once, permissions) = once)
    /\ [][UpsertReturned =>
            LET doc_id == upserter.permissions.doc_id
                access == upserter.permissions.external_access
            IN  /\ upserter'.db.document[doc_id] = Row(access)
                /\ upserter'.db.user
                      = upserter.db.user \cup access.external_user_emails
                /\ upserter'.db.document_by_connector_credential_pair
                      = IF upserter.db.document[doc_id].present
                        THEN upserter.db.document_by_connector_credential_pair
                        ELSE upserter.db.document_by_connector_credential_pair
                                \cup {doc_id}
                /\ (upserter.permissions = upserter.last)
                      => upserter'.db = upserter.db
         ]_vars

\* the same DocExternalAccess was upserted twice in a row; the first call
\* created the document row, added both users and tied the document to the
\* cc pair
C34_Witness ==
    /\ upserter.pc = "idle"
    /\ upserter.outcome = "True"
    /\ upserter.repeated
    /\ upserter.created_new_doc
    /\ upserter.last.external_access.external_user_emails = Emails
    /\ upserter.last.doc_id
          \in upserter.db.document_by_connector_credential_pair

\* a run of the body of the call under way fails in this step
UpsertFailed == upserter.pc = "attempt" /\ upserter'.failed > upserter.failed

\* the exception reaches the generator, which ends in its except block
PropagatesUp(outcome) ==
    /\ upserter'.pc = "idle"
    /\ upserter'.outcome = outcome
    /\ task[upserter.task].pc = "sync"
    /\ task'[upserter.task].pc = "raised"

\* C35: the body of document_update_permissions is run again only after an
\* error that is_retryable_sqlalchemy_error accepts, and then within 600 s of
\* the start; an error it rejects is raised to the generator when it first
\* occurs, a retryable error after 600 s ends the call with RetryError; a
\* success, also one after retryable errors, returns True: the generator
\* counts the item once and goes on with its loop, nothing else changed.
C35_UpserterRetry ==
    [][ /\ (UpsertFailed /\ ~is_retryable_sqlalchemy_error(upserter'.error))
              => /\ PropagatesUp(upserter'.error)
                 /\ upserter'.attempt_number = upserter.attempt_number
        /\ (UpsertFailed /\ is_retryable_sqlalchemy_error(upserter'.error))
              => IF upserter'.elapsed < 600
                 THEN /\ upserter'.pc = "attempt"
                      /\ upserter'.attempt_number = upserter.attempt_number + 1
                      /\ upserter'.sleep <= 60
                 ELSE PropagatesUp("RetryError")
        /\ (upserter.pc = "attempt" /\ upserter'.pc = "attempt"
               /\ upserter' # upserter)
              => /\ UpsertFailed
                 /\ is_retryable_sqlalchemy_error(upserter'.error)
                 /\ upserter'.db = upserter.db
                 /\ UNCHANGED <<task, redis_fence, redis_locks, database>>
        /\ UpsertReturned
              => /\ task' = [task EXCEPT
                                ![upserter.task].tasks_generated = @ + 1]
                 /\ upserter'.db
                       = document_update_permissions(upserter.db,
                                                     upserter.permissions)
                 /\ UNCHANGED <<redis_fence, redis_locks, database>>
      ]_vars

\* three retryable errors, then the fourth run succeeded inside the window:
\* the generator is in its loop and has counted the item
C35_Witness ==
    /\ upserter.pc = "idle"
    /\ upserter.outcome = "True"
    /\ upserter.failed = 3
    /\ upserter.attempt_number = 4
    /\ upserter.elapsed < 600
    /\ task[upserter.task].pc = "sync"
    /\ task[upserter.task].tasks_generated = 1

====
